---------------------------- MODULE Spec2Model ----------------------------
(***************************************************************************)
(* Model of the experience-sync core of Chrysalis                          *)
(* (src/rust/chrysalis-sync): vector clocks, the append-only experience    *)
(* log, delta computation, the gossip protocol, the instance registry and  *)
(* the in-memory transport.                                                *)
(*                                                                         *)
(* Sixteen specifications share the module:                                *)
(*   SpecClock  the VectorClock operations on three clocks;                *)
(*   SpecLog    record_event and ExperienceLog::append on two replicas;    *)
(*   SpecMerge  events_since, apply_delta and merge on two replicas;       *)
(*   SpecMap    LWWMap set and merge on three maps;                        *)
(*   SpecSet    LWWMap set on one map of two keys;                         *)
(*   SpecRemove LWWMap set, remove and merge on three maps;                *)
(*   SpecRound  the gossip rounds of one GossipProtocol with two peers;    *)
(*   SpecHandle two GossipProtocol instances and a transport that delays,  *)
(*              reorders and duplicates;                                   *)
(*   SpecPeers  the peer table of one GossipProtocol under every kind of   *)
(*              message, failures, cleanup and time;                       *)
(*   SpecMetric two GossipProtocol instances that update a metric and      *)
(*              gossip fairly over a reliable transport;                   *)
(*   SpecLimit  one GossipProtocol built with a small                      *)
(*              max_events_per_message;                                    *)
(*   SpecPull   a full synchronisation by Pull between two instances;      *)
(*   SpecRegistry the InstanceManager of one InstanceCoordinator;          *)
(*   SpecLocal  an InstanceManager whose local instance changes;           *)
(*   SpecTransport two InMemoryTransport values;                           *)
(*   Spec       three GossipProtocol instances and a network.              *)
(* Each leaves the variables of the others at their initial value.         *)
(***************************************************************************)
EXTENDS Integers, Sequences, FiniteSets, TLC

VARIABLES
    vc,          \* SpecClock: three VectorClock values
    vcRet,       \* SpecClock: what the last VectorClock call returned
    sync,        \* SpecLog, SpecMerge: replica id -> SyncState
    op,          \* SpecLog, SpecMerge: the last call, its arguments and result
    lww,         \* SpecMap, SpecSet: three LWWMap values
    lwwOp,       \* SpecMap, SpecSet: the last LWWMap call and its arguments
    gossip,      \* Spec: instance id -> GossipProtocol
    net,         \* Spec: the envelopes in flight
    partitioned, \* Spec: the partition isolating instance c is in place
    now,         \* Instant::now(), in ticks
    manager,     \* SpecRegistry: the InstanceManager of an InstanceCoordinator
    mgrRet,      \* SpecRegistry: the last InstanceManager call and its result
    transports,  \* SpecTransport: two InMemoryTransport values
    boxes,       \* SpecTransport: the message maps behind the Arc<Mutex<..>>s
    tRet         \* SpecTransport: the last Transport call, its result, and
                 \* the messages sent to each transport since its last receive

clockVars == <<vc, vcRet>>
logVars == <<sync, op>>
mapVars == <<lww, lwwOp>>
gossipVars == <<gossip, net, partitioned, now>>
registryVars == <<manager, mgrRet>>
transportVars == <<transports, boxes, tRet>>
vars == <<vc, vcRet, sync, op, lww, lwwOp, gossip, net, partitioned, now,
          manager, mgrRet, transports, boxes, tRet>>

-----------------------------------------------------------------------------
(* Bounds *)

\* Largest counter a vector clock entry reaches.
MaxTick == 2

\* Number of event ids (uuids) that record_event can draw.
MaxId == 3

\* Number of envelopes that may still be in flight when a round starts.
MaxBacklog == 1

\* Number of events the instances of SpecHandle record.
MaxRecorded == 2

\* Largest timestamp LWWMap::set is given.
MaxStamp == 2

\* Largest timeout cleanup_stale is given, in ticks.
MaxTimeout == 1

\* Most messages the message maps of the transports hold together.
MaxInbox == 2

\* Longest joined list and longest left list of a MembershipUpdate.
MaxList == 1

\* Largest number of consecutive mark_peer_failed calls on a peer.
MaxFailures == 3

-----------------------------------------------------------------------------
(* VectorClock: crdt.rs 45-114.  A clock is the HashMap itself: a function *)
(* whose domain is the set of instance ids that have an entry.  An id      *)
(* without entry and an id stored with 0 are different maps.               *)

\* Instance ids used as keys of the clocks of SpecClock.
ClockIds == {"a", "b"}

\* VectorClock::new / Default: the empty map.
NewClock == <<>>

Max(x, y) == IF x >= y THEN x ELSE y

\* VectorClock::get: unwrap_or(&0).
get(c, id) == IF id \in DOMAIN c THEN c[id] ELSE 0

\* VectorClock::set: HashMap::insert.
set(c, id, value) ==
    [k \in DOMAIN c \cup {id} |-> IF k = id THEN value ELSE c[k]]

\* tick that adds two.
tick_by_two(c, id) == set(c, id, get(c, id) + 2)

\* VectorClock::tick: entry(id).or_insert(0) += 1; the clock afterwards.
tick(c, id) == set(c, id, get(c, id) + 1)

\* happened_before without its second loop: entries only `other` holds are
\* not looked at.
happened_before_own_entries(self, other) ==
    IF \E id \in DOMAIN self : self[id] > get(other, id)
    THEN FALSE
    ELSE \E id \in DOMAIN self : self[id] < get(other, id)

\* VectorClock::happened_before.
happened_before(self, other) ==
    IF \E id \in DOMAIN self : self[id] > get(other, id)
    THEN FALSE
    ELSE \/ \E id \in DOMAIN self : self[id] < get(other, id)
         \/ \E id \in DOMAIN other : id \notin DOMAIN self /\ other[id] > 0

\* VectorClock::concurrent.
concurrent(self, other) ==
    ~happened_before(self, other) /\ ~happened_before(other, self)

\* merge that stores other's value instead of the maximum.
merge_overwrite(self, other) ==
    [id \in DOMAIN self \cup DOMAIN other |->
        IF id \in DOMAIN other THEN other[id] ELSE self[id]]

\* VectorClock::merge: for each entry of other, entry(id).or_insert(0) takes
\* the maximum; entries of self that other lacks are kept.
merge(self, other) ==
    [id \in DOMAIN self \cup DOMAIN other |->
        IF id \in DOMAIN other THEN Max(get(self, id), other[id]) ELSE self[id]]

\* VectorClock::merged: merge on a clone.
merged(self, other) == merge(self, other)

-----------------------------------------------------------------------------
(* ExperienceEvent: crdt.rs 16-23.  An event id is a uuid string; the ids  *)
(* are modelled by the integers 1..MaxId, whose order stands for the       *)
(* lexicographic order of the strings (String::cmp).  event_type,          *)
(* timestamp and payload are opaque to every operation; `payload` stands   *)
(* for the three.                                                          *)

EventIds == 1..MaxId

ExperienceEvent(id, instance_id, payload, vector_clock) ==
    [id |-> id, instance_id |-> instance_id, payload |-> payload,
     vector_clock |-> vector_clock]

\* The ids of a sequence of events, in order.
IdsOf(events) == [k \in 1..Len(events) |-> events[k].id]

Range(seq) == {seq[k] : k \in 1..Len(seq)}

-----------------------------------------------------------------------------
(* ExperienceLog: crdt.rs 122-195.                                         *)

\* ExperienceLog::new.
NewLog == [events |-> <<>>, seen_ids |-> {}, clock |-> NewClock]

\* append without the seen_ids check.
append_no_dedup(log, event) ==
    [log |-> [events |-> Append(log.events, event),
              seen_ids |-> log.seen_ids \cup {event.id},
              clock |-> merge(log.clock, event.vector_clock)],
     ret |-> TRUE]

\* append that leaves the aggregate clock alone.
append_no_clock(log, event) ==
    IF event.id \in log.seen_ids
    THEN [log |-> log, ret |-> FALSE]
    ELSE [log |-> [events |-> Append(log.events, event),
                   seen_ids |-> log.seen_ids \cup {event.id},
                   clock |-> log.clock],
          ret |-> TRUE]

\* ExperienceLog::append: the log afterwards and the value returned.
append(log, event) ==
    IF event.id \in log.seen_ids
    THEN [log |-> log, ret |-> FALSE]
    ELSE [log |-> [events |-> Append(log.events, event),
                   seen_ids |-> log.seen_ids \cup {event.id},
                   clock |-> merge(log.clock, event.vector_clock)],
          ret |-> TRUE]

\* The filter of ExperienceLog::events_since.
since_filter(since, e) == happened_before(since, e.vector_clock)

\* ExperienceLog::events_since.
events_since(log, since) ==
    SelectSeq(log.events, LAMBDA e : since_filter(since, e))

\* The comparator ExperienceLog::merge hands to sort_by.
compare(a, b) ==
    IF happened_before(a.vector_clock, b.vector_clock) THEN "Less"
    ELSE IF happened_before(b.vector_clock, a.vector_clock) THEN "Greater"
    ELSE IF a.id < b.id THEN "Less"
    ELSE IF a.id > b.id THEN "Greater"
    ELSE "Equal"

is_less(a, b) == compare(a, b) = "Less"

(* slice::sort_by is the standard library's stable sort.  For a slice of   *)
(* at most 20 elements it is an insertion sort: current builds insert each *)
(* element into the sorted prefix from its tail (insertion_sort_shift_left)*)
(* and older builds insert each element into the sorted suffix from its    *)
(* head (insert_head).  With a comparator that is a total order both give  *)
(* the same sequence; with one that is not, the result is whatever the     *)
(* build's algorithm leaves.  Both are modelled; the logs of the model     *)
(* never exceed 20 events.                                                 *)
RECURSIVE InsertTail(_, _)
InsertTail(sorted, x) ==
    IF sorted = <<>> THEN <<x>>
    ELSE IF is_less(x, sorted[Len(sorted)])
         THEN Append(InsertTail(SubSeq(sorted, 1, Len(sorted) - 1), x),
                     sorted[Len(sorted)])
         ELSE Append(sorted, x)

RECURSIVE SortShiftLeft(_)
SortShiftLeft(v) ==
    IF Len(v) < 2 THEN v
    ELSE InsertTail(SortShiftLeft(SubSeq(v, 1, Len(v) - 1)), v[Len(v)])

RECURSIVE InsertHead(_, _)
InsertHead(x, sorted) ==
    IF sorted = <<>> THEN <<x>>
    ELSE IF is_less(sorted[1], x)
         THEN <<sorted[1]>> \o InsertHead(x, Tail(sorted))
         ELSE <<x>> \o sorted

RECURSIVE SortInsertHead(_)
SortInsertHead(v) ==
    IF Len(v) < 2 THEN v
    ELSE InsertHead(v[1], SortInsertHead(Tail(v)))

SortBuilds == {"shift_left", "insert_head"}

sort_by(v, build) ==
    IF build = "shift_left" THEN SortShiftLeft(v) ELSE SortInsertHead(v)

\* The first loop without its seen_ids check.
import_all(log, others) ==
    [log EXCEPT !.seen_ids = @ \cup Range(IdsOf(others)),
                !.events = @ \o others]

\* The first loop of ExperienceLog::merge: push every event of `others`
\* whose id is not seen yet.
RECURSIVE import_unseen(_, _)
import_unseen(log, others) ==
    IF others = <<>> THEN log
    ELSE LET event == Head(others)
             next == IF event.id \notin log.seen_ids
                     THEN [log EXCEPT !.seen_ids = @ \cup {event.id},
                                      !.events = Append(@, event)]
                     ELSE log
         IN import_unseen(next, Tail(others))

\* ExperienceLog::merge, the sort done by the given build.
log_merge(self, other, build) ==
    LET imported == import_unseen(self, other.events)
    IN [events |-> sort_by(imported.events, build),
        seen_ids |-> imported.seen_ids,
        clock |-> merge(self.clock, other.clock)]

-----------------------------------------------------------------------------
(* LWWMap: crdt.rs 203-283.  A map is the HashMap: a function from the     *)
(* keys that have an entry to LWWEntry records.  Writers are instance ids; *)
(* WriterRank gives the order of the strings.                              *)

WriterRank == [a |-> 1, b |-> 2, c |-> 3]

NewMap == <<>>

LWWEntry(value, timestamp, writer) ==
    [value |-> value, timestamp |-> timestamp, writer |-> writer]

\* set that lets the new entry win a tie whatever its writer.
lww_set_newer_or_equal(map, key, value, timestamp, writer) ==
    IF key \in DOMAIN map /\ map[key].timestamp > timestamp
    THEN map
    ELSE [k \in DOMAIN map \cup {key} |->
            IF k = key THEN LWWEntry(value, timestamp, writer) ELSE map[k]]

\* LWWMap::set.
lww_set(map, key, value, timestamp, writer) ==
    IF /\ key \in DOMAIN map
       /\ \/ map[key].timestamp > timestamp
          \/ /\ map[key].timestamp = timestamp
             /\ WriterRank[map[key].writer] >= WriterRank[writer]
    THEN map
    ELSE [k \in DOMAIN map \cup {key} |->
            IF k = key THEN LWWEntry(value, timestamp, writer) ELSE map[k]]

\* LWWMap::get: the value as an Option, a sequence of length 0 or 1.
lww_get(map, key) == IF key \in DOMAIN map THEN <<map[key].value>> ELSE <<>>

\* remove that keeps an entry newer than the timestamp it is given.
lww_remove_unless_newer(map, key, timestamp) ==
    IF key \in DOMAIN map /\ map[key].timestamp > timestamp
    THEN map
    ELSE [k \in DOMAIN map \ {key} |-> map[k]]

\* LWWMap::remove: the timestamp is not read.
lww_remove(map, key, timestamp) == [k \in DOMAIN map \ {key} |-> map[k]]

\* merge whose tie-break is other.writer >= self.writer.
lww_merge_tie_to_other(self, other) ==
    [k \in DOMAIN self \cup DOMAIN other |->
        IF k \notin DOMAIN other THEN self[k]
        ELSE IF k \notin DOMAIN self THEN other[k]
        ELSE IF \/ other[k].timestamp > self[k].timestamp
                \/ /\ other[k].timestamp = self[k].timestamp
                   /\ WriterRank[other[k].writer] >= WriterRank[self[k].writer]
             THEN other[k]
             ELSE self[k]]

\* LWWMap::merge.
lww_merge(self, other) ==
    [k \in DOMAIN self \cup DOMAIN other |->
        IF k \notin DOMAIN other THEN self[k]
        ELSE IF k \notin DOMAIN self THEN other[k]
        ELSE IF \/ other[k].timestamp > self[k].timestamp
                \/ /\ other[k].timestamp = self[k].timestamp
                   /\ WriterRank[other[k].writer] > WriterRank[self[k].writer]
             THEN other[k]
             ELSE self[k]]

-----------------------------------------------------------------------------
(* DeltaState and SyncState: crdt.rs 291-404.                              *)

\* DeltaState::is_empty (state_updates is always the empty map).
delta_is_empty(delta) == delta.events = <<>> /\ delta.state_updates = <<>>

\* SyncState::new.
NewSyncState(instance_id) ==
    [instance_id |-> instance_id, log |-> NewLog,
     metrics |-> NewMap, metadata |-> NewMap, last_sync |-> 0]

\* record_event that stamps the event with the clock as it is, without tick.
record_event_no_tick(state, id, payload) ==
    LET event == ExperienceEvent(id, state.instance_id, payload, state.log.clock)
    IN [state |-> [state EXCEPT !.log = append(state.log, event).log],
        event |-> event]

\* SyncState::record_event, the uuid drawn being `id`: the state afterwards
\* and the event returned.
record_event(state, id, payload) ==
    LET clock == tick(state.log.clock, state.instance_id)
        event == ExperienceEvent(id, state.instance_id, payload, clock)
    IN [state |-> [state EXCEPT !.log = append(state.log, event).log],
        event |-> event]

\* SyncState::update_metric, SystemTime::now() being `timestamp`.
update_metric(state, name, value, timestamp) ==
    [state EXCEPT !.metrics =
        lww_set(@, name, value, timestamp, state.instance_id)]

\* delta_since that packages every event of the log.
delta_since_everything(state, since) ==
    [from_clock |-> since,
     to_clock |-> state.log.clock,
     events |-> state.log.events,
     state_updates |-> <<>>]

\* SyncState::delta_since.
delta_since(state, since) ==
    [from_clock |-> since,
     to_clock |-> state.log.clock,
     events |-> events_since(state.log, since),
     state_updates |-> <<>>]

RECURSIVE append_all(_, _)
append_all(log, events) ==
    IF events = <<>> THEN log
    ELSE append_all(append(log, Head(events)).log, Tail(events))

\* apply_delta that pushes the events of the delta without ExperienceLog::append.
apply_delta_push(state, delta) ==
    [state EXCEPT !.log.events = @ \o delta.events,
                  !.log.seen_ids = @ \cup Range(IdsOf(delta.events))]

\* SyncState::apply_delta.
apply_delta(state, delta) ==
    [state EXCEPT !.log = append_all(state.log, delta.events)]

\* merge that adopts the log of other.
sync_merge_adopt(self, other, build) ==
    [self EXCEPT !.log = other.log,
                 !.metrics = lww_merge(self.metrics, other.metrics),
                 !.metadata = lww_merge(self.metadata, other.metadata)]

\* SyncState::merge.
sync_merge(self, other, build) ==
    [self EXCEPT !.log = log_merge(self.log, other.log, build),
                 !.metrics = lww_merge(self.metrics, other.metrics),
                 !.metadata = lww_merge(self.metadata, other.metadata)]

-----------------------------------------------------------------------------
(* GossipConfig, PeerState, GossipMessage, GossipProtocol: gossip.rs.      *)

\* GossipConfig::default().fanout
Fanout == 3

\* The failed_attempts at which PeerState::mark_failed clears is_reachable.
FailureThreshold == 3

\* GossipConfig::default().peer_timeout_ms, in ticks of `now` (a tick is
\* 30 seconds).
PeerTimeout == 1

\* GossipConfig::default().max_events_per_message
MaxEventsPerMessage == 100

\* GossipConfig::default(): the fields the protocol reads, and
\* max_events_per_message, which it never reads.
DefaultConfig ==
    [fanout |-> Fanout, peer_timeout_ms |-> PeerTimeout,
     max_events_per_message |-> MaxEventsPerMessage]

Instances == {"a", "b", "c"}

\* The transport address of each instance, and the instance at an address.
AddressOf == [a |-> "addr_a", b |-> "addr_b", c |-> "addr_c"]
OwnerOf(address) == CHOOSE i \in Instances : AddressOf[i] = address

\* PeerState::new.
NewPeerState(peer_id, address) ==
    [peer_id |-> peer_id, address |-> address, last_seen |-> now,
     last_clock |-> NewClock, failed_attempts |-> 0, is_reachable |-> TRUE]

\* mark_seen that keeps the failure count and the reachability.
mark_seen_keeps_failures(peer) ==
    [peer EXCEPT !.last_seen = now]

\* PeerState::mark_seen.
mark_seen(peer) ==
    [peer EXCEPT !.last_seen = now, !.failed_attempts = 0,
                 !.is_reachable = TRUE]

\* is_stale that holds from the timeout on.
is_stale_at_timeout(peer, timeout) == now - peer.last_seen >= timeout

\* PeerState::is_stale.
is_stale(peer, timeout) == now - peer.last_seen > timeout

\* mark_failed that clears is_reachable one failure later.
mark_failed_late(peer) ==
    [peer EXCEPT !.failed_attempts = @ + 1,
                 !.is_reachable =
                     IF peer.failed_attempts + 1 > FailureThreshold
                     THEN FALSE ELSE @]

\* PeerState::mark_failed.
mark_failed(peer) ==
    [peer EXCEPT !.failed_attempts = @ + 1,
                 !.is_reachable =
                     IF peer.failed_attempts + 1 >= FailureThreshold
                     THEN FALSE ELSE @]

\* GossipMessage, and the None of Option<GossipMessage>.
Push(sender_id, delta) ==
    [type |-> "push", sender_id |-> sender_id, delta |-> delta]
Pull(sender_id, since_clock) ==
    [type |-> "pull", sender_id |-> sender_id, since_clock |-> since_clock]
PullResponse(sender_id, delta) ==
    [type |-> "pull_response", sender_id |-> sender_id, delta |-> delta]
Heartbeat(sender_id, clock, peer_count) ==
    [type |-> "heartbeat", sender_id |-> sender_id, clock |-> clock,
     peer_count |-> peer_count]
MembershipUpdate(sender_id, joined, left) ==
    [type |-> "membership_update", sender_id |-> sender_id,
     joined |-> joined, left |-> left]
None == [type |-> "none"]

\* PeerInfo.
PeerInfo(peer_id, address) == [peer_id |-> peer_id, address |-> address]

\* GossipProtocol::new.  pending_messages is never written by the code.
NewGossipProtocol(instance_id, config) ==
    [instance_id |-> instance_id, config |-> config,
     state |-> NewSyncState(instance_id),
     peers |-> <<>>, pending_messages |-> <<>>, last_gossip |-> now]

\* A HashMap with one more entry, or one entry replaced.
Insert(map, key, value) ==
    [k \in DOMAIN map \cup {key} |-> IF k = key THEN value ELSE map[k]]

\* A HashMap without the entries of the given keys.
Remove(map, keys) == [k \in DOMAIN map \ keys |-> map[k]]

\* add_peer without the comparison with instance_id.
add_peer_unchecked(g, peer_id, address) ==
    IF peer_id \notin DOMAIN g.peers
    THEN [g EXCEPT !.peers = Insert(@, peer_id, NewPeerState(peer_id, address))]
    ELSE g

\* add_peer that replaces the PeerState the table holds for the id.
add_peer_replacing(g, peer_id, address) ==
    IF peer_id # g.instance_id
    THEN [g EXCEPT !.peers = Insert(@, peer_id, NewPeerState(peer_id, address))]
    ELSE g

\* add_peer that registers the peer under the address the id is known by.
add_peer_known_address(g, peer_id, address) ==
    IF peer_id # g.instance_id /\ peer_id \notin DOMAIN g.peers
    THEN [g EXCEPT !.peers =
            Insert(@, peer_id, NewPeerState(peer_id, AddressOf[peer_id]))]
    ELSE g

\* GossipProtocol::add_peer.
add_peer(g, peer_id, address) ==
    IF peer_id # g.instance_id /\ peer_id \notin DOMAIN g.peers
    THEN [g EXCEPT !.peers = Insert(@, peer_id, NewPeerState(peer_id, address))]
    ELSE g

\* GossipProtocol::remove_peer.
remove_peer(g, peer_id) == [g EXCEPT !.peers = Remove(@, {peer_id})]

\* The orders in which a HashMap can iterate over the given keys.
IterationOrders(keys) ==
    {ord \in [1..Cardinality(keys) -> keys] :
        \A k, l \in 1..Cardinality(keys) : k # l => ord[k] # ord[l]}

\* Iterator::take.
Take(seq, n) == SubSeq(seq, 1, IF Len(seq) <= n THEN Len(seq) ELSE n)

\* select_gossip_targets without the is_reachable filter and the take.
select_every_peer(g, ord) == ord

\* GossipProtocol::select_gossip_targets, the peers map iterating in the
\* order ord: the ids of the peers selected.
select_gossip_targets(g, ord) ==
    LET reachable == SelectSeq(ord, LAMBDA id : g.peers[id].is_reachable)
    IN IF Len(reachable) <= g.config.fanout THEN reachable
       ELSE Take(reachable, g.config.fanout)

\* The Push loop without the is_empty check.
RECURSIVE push_messages_unchecked(_, _)
push_messages_unchecked(g, targets) ==
    IF targets = <<>> THEN <<>>
    ELSE LET peer == g.peers[Head(targets)]
             delta == delta_since(g.state, peer.last_clock)
         IN <<[address |-> peer.address,
               message |-> Push(g.instance_id, delta)]>>
            \o push_messages_unchecked(g, Tail(targets))

\* The Push loop of GossipProtocol::initiate_gossip.
RECURSIVE push_messages(_, _)
push_messages(g, targets) ==
    IF targets = <<>> THEN <<>>
    ELSE LET peer == g.peers[Head(targets)]
             delta == delta_since(g.state, peer.last_clock)
         IN (IF ~delta_is_empty(delta)
             THEN <<[address |-> peer.address,
                     message |-> Push(g.instance_id, delta)]>>
             ELSE <<>>)
            \o push_messages(g, Tail(targets))

\* The Heartbeat loop of GossipProtocol::initiate_gossip.
heartbeat_messages(g, ord) ==
    LET targets == Take(ord, g.config.fanout)
    IN [k \in 1..Len(targets) |->
          [address |-> g.peers[targets[k]].address,
           message |-> Heartbeat(g.instance_id, g.state.log.clock,
                                 Cardinality(DOMAIN g.peers))]]

\* initiate_gossip, had it taken every Push it returns as received: the
\* last_clock of each target set to the local clock.
initiate_gossip_acking(g, ord) ==
    LET targets == Range(select_gossip_targets(g, ord))
    IN [g |-> [g EXCEPT !.last_gossip = now,
                        !.peers = [p \in DOMAIN @ |->
                                     IF p \in targets
                                     THEN [@[p] EXCEPT !.last_clock =
                                             g.state.log.clock]
                                     ELSE @[p]]],
        messages |-> push_messages(g, select_gossip_targets(g, ord))
                       \o heartbeat_messages(g, ord)]

\* GossipProtocol::initiate_gossip, the peers map iterating in the order
\* ord: the protocol afterwards and the messages returned.
initiate_gossip(g, ord) ==
    [g |-> [g EXCEPT !.last_gossip = now],
     messages |-> push_messages(g, select_gossip_targets(g, ord))
                    \o heartbeat_messages(g, ord)]

\* request_full_sync, had it asked for what follows the local clock.
request_sync_since_own(g, peer_address) ==
    [address |-> peer_address,
     message |-> Pull(g.instance_id, g.state.log.clock)]

\* GossipProtocol::request_full_sync.
request_full_sync(g, peer_address) ==
    [address |-> peer_address, message |-> Pull(g.instance_id, NewClock)]

\* The joins and the leaves of a MembershipUpdate, in order.
RECURSIVE add_peers(_, _)
add_peers(g, joined) ==
    IF joined = <<>> THEN g
    ELSE add_peers(add_peer(g, Head(joined).peer_id, Head(joined).address),
                   Tail(joined))

RECURSIVE remove_peers(_, _)
remove_peers(g, left) ==
    IF left = <<>> THEN g
    ELSE remove_peers(remove_peer(g, Head(left)), Tail(left))

\* GossipProtocol::handle_message: the protocol afterwards and the reply.
handle_message(g, from_address, message) ==
    LET sender_id == message.sender_id
        known == sender_id \in DOMAIN g.peers
    IN CASE message.type \in {"push", "pull_response"} ->
              LET seen == IF known
                          THEN [g EXCEPT !.peers[sender_id] =
                                  [mark_seen(@) EXCEPT
                                      !.last_clock = message.delta.to_clock]]
                          ELSE g
              IN [g |-> [seen EXCEPT
                            !.state = apply_delta(@, message.delta)],
                  reply |-> None]
         [] message.type = "pull" ->
              [g |-> IF known
                     THEN [g EXCEPT !.peers[sender_id] = mark_seen(@)]
                     ELSE g,
               reply |-> PullResponse(g.instance_id,
                             delta_since(g.state, message.since_clock))]
         [] message.type = "heartbeat" ->
              [g |-> IF known
                     THEN [g EXCEPT !.peers[sender_id] =
                             [mark_seen(@) EXCEPT !.last_clock = message.clock]]
                     ELSE add_peer(g, sender_id, from_address),
               reply |-> None]
         [] message.type = "membership_update" ->
              LET seen == IF known
                          THEN [g EXCEPT !.peers[sender_id] = mark_seen(@)]
                          ELSE g
              IN [g |-> remove_peers(add_peers(seen, message.joined),
                                     message.left),
                  reply |-> None]

\* mark_peer_failed that drops the peer once it is unreachable.
mark_peer_failed_evicting(g, peer_id) ==
    IF peer_id \in DOMAIN g.peers
    THEN IF mark_failed(g.peers[peer_id]).is_reachable
         THEN [g EXCEPT !.peers[peer_id] = mark_failed(@)]
         ELSE [g EXCEPT !.peers = Remove(@, {peer_id})]
    ELSE g

\* GossipProtocol::mark_peer_failed.
mark_peer_failed(g, peer_id) ==
    IF peer_id \in DOMAIN g.peers
    THEN [g EXCEPT !.peers[peer_id] = mark_failed(@)]
    ELSE g

\* GossipProtocol::cleanup_stale_peers.
cleanup_stale_peers(g) ==
    [g EXCEPT !.peers =
        Remove(@, {id \in DOMAIN g.peers :
                      is_stale(g.peers[id], g.config.peer_timeout_ms)})]

-----------------------------------------------------------------------------
(* InstanceStatus, RegisteredInstance, InstanceManager and                 *)
(* InstanceCoordinator: instance.rs.  Of InstanceConfig the model keeps    *)
(* instance_id, of InstanceHealth status and last_heartbeat; created_at is *)
(* written once and read by no method.  An Option is a sequence of length  *)
(* 0 or 1.                                                                 *)

InstanceStatus ==
    {"starting", "running", "syncing", "paused", "stopping", "stopped", "failed"}

NoValue == <<>>
Some(x) == <<x>>

\* RegisteredInstance::new.
NewRegisteredInstance(instance_id, address) ==
    [instance_id |-> instance_id, status |-> "starting",
     health |-> [status |-> "starting", last_heartbeat |-> now],
     address |-> address, last_seen |-> now]

\* RegisteredInstance::update_heartbeat.
update_heartbeat(instance) ==
    [instance EXCEPT !.last_seen = now, !.health.last_heartbeat = now]

\* The transitions of the status machine as drawn: Starting, Running,
\* Syncing, Paused, Stopping, then Stopped or Failed.
StatusChain ==
    {<<"starting", "running">>, <<"running", "syncing">>,
     <<"syncing", "paused">>, <<"paused", "stopping">>,
     <<"stopping", "stopped">>, <<"stopping", "failed">>}

\* update_status, had it refused every change that is off the chain.
instance_update_status_along_chain(instance, status) ==
    IF <<instance.status, status>> \in StatusChain
    THEN [instance EXCEPT !.status = status, !.health.status = status]
    ELSE instance

\* RegisteredInstance::update_status.
instance_update_status(instance, status) ==
    [instance EXCEPT !.status = status, !.health.status = status]

\* RegisteredInstance::is_stale.
instance_is_stale(instance, timeout) == now - instance.last_seen > timeout

\* InstanceManager::new.
NewInstanceManager == [instances |-> <<>>, local_instance_id |-> NoValue]

\* register, had it left an id that is already registered as it is.
register_keeping(m, instance_id, address) ==
    IF instance_id \in DOMAIN m.instances
    THEN [m |-> m, ret |-> instance_id]
    ELSE [m |-> [m EXCEPT !.instances =
                   Insert(@, instance_id,
                          NewRegisteredInstance(instance_id, address))],
          ret |-> instance_id]

\* InstanceManager::register: the manager afterwards and the id returned.
register(m, instance_id, address) ==
    [m |-> [m EXCEPT !.instances =
              Insert(@, instance_id,
                     NewRegisteredInstance(instance_id, address))],
     ret |-> instance_id]

\* InstanceManager::register_local.
register_local(m, instance_id) ==
    [m |-> [register(m, instance_id, NoValue).m EXCEPT
              !.local_instance_id = Some(instance_id)],
     ret |-> instance_id]

\* InstanceManager::heartbeat.
heartbeat(m, instance_id) ==
    IF instance_id \in DOMAIN m.instances
    THEN [m |-> [m EXCEPT !.instances[instance_id] = update_heartbeat(@)],
          ret |-> TRUE]
    ELSE [m |-> m, ret |-> FALSE]

\* InstanceManager::update_status.
update_status(m, instance_id, status) ==
    IF instance_id \in DOMAIN m.instances
    THEN [m |-> [m EXCEPT !.instances[instance_id] =
                   instance_update_status(@, status)],
          ret |-> TRUE]
    ELSE [m |-> m, ret |-> FALSE]

\* InstanceManager::remote_instances, as the set the Vec holds.
remote_instances(m) ==
    {m.instances[id] : id \in
        {j \in DOMAIN m.instances :
            Some(m.instances[j].instance_id) # m.local_instance_id}}

\* unregister, had it left local_instance_id alone.
unregister_keeping_local(m, instance_id) ==
    [m |-> [m EXCEPT !.instances = Remove(@, {instance_id})],
     ret |-> IF instance_id \in DOMAIN m.instances
             THEN Some(m.instances[instance_id]) ELSE NoValue]

\* InstanceManager::unregister.
unregister(m, instance_id) ==
    [m |-> [m EXCEPT !.instances = Remove(@, {instance_id}),
                     !.local_instance_id =
                         IF @ = Some(instance_id) THEN NoValue ELSE @],
     ret |-> IF instance_id \in DOMAIN m.instances
             THEN Some(m.instances[instance_id]) ELSE NoValue]

\* The ids collected, had the local instance not been spared.
stale_ids_with_local(m, timeout) ==
    {id \in DOMAIN m.instances :
        instance_is_stale(m.instances[id], timeout)}

\* The ids InstanceManager::cleanup_stale collects.
stale_ids(m, timeout) ==
    {id \in DOMAIN m.instances :
        /\ Some(id) # m.local_instance_id
        /\ instance_is_stale(m.instances[id], timeout)}

\* InstanceManager::cleanup_stale, the instances map iterating over the
\* stale ids in the order ord: the manager afterwards and the ids returned.
cleanup_stale(m, timeout, ord) ==
    [m |-> [m EXCEPT !.instances = Remove(@, Range(ord))],
     ret |-> ord]

\* InstanceCoordinator::new: its manager.
NewCoordinatorManager(instance_id) ==
    register_local(NewInstanceManager, instance_id).m

\* InstanceCoordinator::start: its manager afterwards.
start(m) ==
    IF m.local_instance_id # NoValue
    THEN update_status(m, m.local_instance_id[1], "running").m
    ELSE m

\* InstanceCoordinator::stop: its manager afterwards.
stop(m) ==
    IF m.local_instance_id # NoValue
    THEN update_status(m, m.local_instance_id[1], "stopped").m
    ELSE m

\* The manager of the specifications that leave it alone.
IdleRegistry ==
    /\ manager = NewInstanceManager
    /\ mgrRet = [name |-> "new"]

-----------------------------------------------------------------------------
(* InMemoryTransport: transport.rs 245-309.  The Arc<Mutex<HashMap>> of a  *)
(* transport is the number of a message map in `boxes`: two transports     *)
(* share their messages exactly when they hold the same number.  The       *)
(* connected_peers map, whose values are all true, is the set of its keys. *)

\* InMemoryTransport::new, its fresh message map being the one numbered box.
NewInMemoryTransport(instance_id, box) ==
    [instance_id |-> instance_id, messages |-> box, connected_peers |-> {}]

\* The transports of InMemoryTransport::new("a") and ::new("b").
NewTransports ==
    [ta |-> NewInMemoryTransport("a", 1), tb |-> NewInMemoryTransport("b", 2)]

\* The transports of InMemoryTransport::create_pair().
create_pair ==
    [ta |-> NewInMemoryTransport("a", 1), tb |-> NewInMemoryTransport("b", 1)]

\* The message maps right after construction.
NewBoxes == [box \in {1, 2} |-> <<>>]

\* InMemoryTransport::connect and disconnect.
connect(t, address) ==
    [t EXCEPT !.connected_peers = @ \cup {address}]
disconnect(t, address) ==
    [t EXCEPT !.connected_peers = @ \ {address}]

\* InMemoryTransport::send: the message maps afterwards.
send(bx, t, address, message) ==
    [bx EXCEPT ![t.messages] =
        IF address \in DOMAIN @
        THEN [@ EXCEPT ![address] = Append(@, message)]
        ELSE Insert(@, address, <<message>>)]

\* InMemoryTransport::receive: the message maps afterwards and the pairs
\* returned.
receive(bx, t) ==
    IF t.instance_id \in DOMAIN bx[t.messages]
    THEN [boxes |-> [bx EXCEPT ![t.messages] = Remove(@, {t.instance_id})],
          ret |-> [k \in 1..Len(bx[t.messages][t.instance_id]) |->
                     <<"sender", bx[t.messages][t.instance_id][k]>>]]
    ELSE [boxes |-> bx, ret |-> <<>>]

\* The transports of the specifications that leave them alone.
IdleTransport ==
    /\ transports = NewTransports
    /\ boxes = NewBoxes
    /\ tRet = [name |-> "new", owed |-> [h \in {"ta", "tb"} |-> <<>>]]

-----------------------------------------------------------------------------
(* SpecClock: three clocks built by tick, set and merge, and compared.     *)

ClockSlots == 1..3

IdleClock ==
    /\ vc = [i \in ClockSlots |-> NewClock]
    /\ vcRet = [op |-> "new", ret |-> 0]

\* vc[i].tick(id)
ClockTick(i, id) ==
    /\ get(vc[i], id) < MaxTick
    /\ vc' = [vc EXCEPT ![i] = tick(vc[i], id)]
    /\ vcRet' = [op |-> "tick", ret |-> get(tick(vc[i], id), id)]
    /\ UNCHANGED <<logVars, mapVars, gossipVars, registryVars, transportVars>>

\* vc[i].set(id, value)
ClockSet(i, id, value) ==
    /\ vc' = [vc EXCEPT ![i] = set(vc[i], id, value)]
    /\ vcRet' = [op |-> "set", ret |-> 0]
    /\ UNCHANGED <<logVars, mapVars, gossipVars, registryVars, transportVars>>

\* vc[i].merge(&vc[j])
ClockMerge(i, j) ==
    /\ vc' = [vc EXCEPT ![i] = merge(vc[i], vc[j])]
    /\ vcRet' = [op |-> "merge", ret |-> 0]
    /\ UNCHANGED <<logVars, mapVars, gossipVars, registryVars, transportVars>>

\* vc[k] = vc[i].merged(&vc[j])
ClockMerged(i, j, k) ==
    /\ vc' = [vc EXCEPT ![k] = merged(vc[i], vc[j])]
    /\ vcRet' = [op |-> "merged", ret |-> 0]
    /\ UNCHANGED <<logVars, mapVars, gossipVars, registryVars, transportVars>>

\* vc[1].happened_before(&vc[2])
ClockHappenedBefore ==
    /\ vcRet' = [op |-> "happened_before",
                 ret |-> happened_before(vc[1], vc[2])]
    /\ UNCHANGED <<vc, logVars, mapVars, gossipVars, registryVars,
                   transportVars>>

\* vc[1].concurrent(&vc[2])
ClockConcurrent ==
    /\ vcRet' = [op |-> "concurrent", ret |-> concurrent(vc[1], vc[2])]
    /\ UNCHANGED <<vc, logVars, mapVars, gossipVars, registryVars,
                   transportVars>>

-----------------------------------------------------------------------------
(* SpecLog: the SyncStates of a few replicas.  Events are created by       *)
(* record_event and spread by value, by append, apply_delta and merge.     *)

LogReplicas == {"a", "b"}

\* The payload record_event is given, and the one a forged duplicate carries.
Payload == "p"
OtherPayload == "q"

IdleLog ==
    /\ sync = [r \in LogReplicas |-> NewSyncState(r)]
    /\ op = [name |-> "new"]

\* Every event some replica holds.
KnownEvents == UNION {Range(sync[r].log.events) : r \in LogReplicas}

\* The clocks callers pass as `since`: the empty clock (request_full_sync)
\* and the aggregate clock of a replica (a peer's last known clock).
KnownClocks == {NewClock} \cup {sync[r].log.clock : r \in LogReplicas}

\* The events of other replicas that replica r lacks.
Unseen(r) == {e \in KnownEvents : e.id \notin sync[r].log.seen_ids}

\* For each event replica r holds, an event that reuses its id with another
\* payload and a clock the log has not reached.
Duplicates(r) ==
    {ExperienceEvent(e.id, e.instance_id, OtherPayload,
                     tick(sync[r].log.clock, r)) :
        e \in Range(sync[r].log.events)}

\* sync[r].record_event(_, payload), the uuid drawn being id.
LogRecordEvent(r, id) ==
    /\ \A x \in LogReplicas : id \notin sync[x].log.seen_ids
    /\ LET res == record_event(sync[r], id, Payload)
       IN /\ sync' = [sync EXCEPT ![r] = res.state]
          /\ op' = [name |-> "record_event", r |-> r, event |-> res.event]
    /\ UNCHANGED <<clockVars, mapVars, gossipVars, registryVars,
                   transportVars>>

\* sync[r].log.append(event): an event taken by value from some replica,
\* or a duplicate of one r holds.
LogAppend(r, event) ==
    /\ LET res == append(sync[r].log, event)
       IN /\ sync' = [sync EXCEPT ![r].log = res.log]
          /\ op' = [name |-> "append", r |-> r, event |-> event,
                    ret |-> res.ret]
    /\ UNCHANGED <<clockVars, mapVars, gossipVars, registryVars,
                   transportVars>>

\* sync[r].log.events_since(&since)
LogEventsSince(r, since) ==
    /\ op' = [name |-> "events_since", r |-> r, since |-> since,
              ret |-> events_since(sync[r].log, since)]
    /\ UNCHANGED <<sync, clockVars, mapVars, gossipVars, registryVars,
                   transportVars>>

\* sync[r].apply_delta(sync[s].delta_since(&since))
LogApplyDelta(r, s, since) ==
    /\ r # s
    /\ LET delta == delta_since(sync[s], since)
       IN /\ sync' = [sync EXCEPT ![r] = apply_delta(sync[r], delta)]
          /\ op' = [name |-> "apply_delta", r |-> r, s |-> s, delta |-> delta]
    /\ UNCHANGED <<clockVars, mapVars, gossipVars, registryVars,
                   transportVars>>

\* sync[r].merge(&sync[s])
LogMerge(r, s, build) ==
    /\ r # s
    /\ sync' = [sync EXCEPT ![r] = sync_merge(sync[r], sync[s], build)]
    /\ op' = [name |-> "merge", r |-> r, s |-> s]
    /\ UNCHANGED <<clockVars, mapVars, gossipVars, registryVars,
                   transportVars>>

-----------------------------------------------------------------------------
(* SpecMap, SpecSet: LWWMap values built by set and merge.  Timestamps are *)
(* the real-valued f64 times of the callers, modelled by 1..MaxStamp.      *)

MapSlots == 1..3
MapKeys == {"k", "l"}
MapValues == {1, 2}
MapWriters == {"a", "b"}
Stamps == 1..MaxStamp

IdleMap ==
    /\ lww = [i \in MapSlots |-> NewMap]
    /\ lwwOp = [name |-> "new"]

\* lww[i].set(key, value, timestamp, writer)
MapSet(i, key, value, timestamp, writer) ==
    /\ lww' = [lww EXCEPT ![i] = lww_set(lww[i], key, value, timestamp, writer)]
    /\ lwwOp' = [name |-> "set", i |-> i, key |-> key, value |-> value,
                 timestamp |-> timestamp, writer |-> writer]
    /\ UNCHANGED <<clockVars, logVars, gossipVars, registryVars,
                   transportVars>>

\* lww[i].merge(&lww[j])
MapMerge(i, j) ==
    /\ lww' = [lww EXCEPT ![i] = lww_merge(lww[i], lww[j])]
    /\ lwwOp' = [name |-> "merge", i |-> i, j |-> j]
    /\ UNCHANGED <<clockVars, logVars, gossipVars, registryVars,
                   transportVars>>

\* lww[i].remove(key, timestamp)
MapRemove(i, key, timestamp) ==
    /\ lww' = [lww EXCEPT ![i] = lww_remove(lww[i], key, timestamp)]
    /\ lwwOp' = [name |-> "remove", i |-> i, key |-> key,
                 timestamp |-> timestamp]
    /\ UNCHANGED <<clockVars, logVars, gossipVars, registryVars,
                   transportVars>>

\* lww[i].merge(&lww[j]), the call before it kept in lwwOp.
MapMergeNext(i, j) ==
    /\ lww' = [lww EXCEPT ![i] = lww_merge(lww[i], lww[j])]
    /\ lwwOp' = [name |-> "merge", i |-> i, j |-> j,
                 before |-> [name |-> lwwOp.name,
                             i |-> IF lwwOp.name = "new" THEN 0 ELSE lwwOp.i,
                             timestamp |->
                                 IF lwwOp.name \in {"set", "remove"}
                                 THEN lwwOp.timestamp ELSE 0]]
    /\ UNCHANGED <<clockVars, logVars, gossipVars, registryVars,
                   transportVars>>

-----------------------------------------------------------------------------
(* Spec: three GossipProtocol instances that hold each other as peers, the *)
(* runtime that drives them and the network between them.  The runtime     *)
(* records events, runs gossip rounds, hands every message returned to     *)
(* the transport, and hands every message received to handle_message,      *)
(* sending the reply back.  A round starts when the envelopes of the       *)
(* round before it have been delivered (gossip_interval_ms is far longer   *)
(* than a delivery); the envelopes of a round are delivered in any order.  *)
(* While the partition is in place the transport loses every message to    *)
(* and from instance c.                                                    *)
(* No operation of the protocol reads the order of event ids, so           *)
(* record_event draws the ids in the order 1, 2, ...                       *)

Isolated == "c"

IdleGossip ==
    /\ now = 0
    /\ gossip = [i \in Instances |->
                   [NewGossipProtocol(i, DefaultConfig) EXCEPT !.peers =
                       [p \in Instances \ {i} |->
                           NewPeerState(p, AddressOf[p])]]]
    /\ net = {}
    /\ partitioned = TRUE

Envelope(from, to, message) ==
    [from |-> from, to |-> to, message |-> message]

\* The transport loses the envelope.
Lost(envelope) ==
    partitioned /\ Isolated \in {OwnerOf(envelope.from), OwnerOf(envelope.to)}

\* The envelopes the transport takes of the messages instance i returns.
Sent(i, messages) ==
    {e \in {Envelope(AddressOf[i], m.address, m.message) : m \in Range(messages)} :
        ~Lost(e)}

\* The ids of the events recorded so far.
RecordedIds == UNION {gossip[i].state.log.seen_ids : i \in Instances}

\* gossip[i].get_state_mut().record_event(_, payload)
RecordEvent(i) ==
    /\ Cardinality(RecordedIds) < MaxId
    /\ gossip' = [gossip EXCEPT ![i].state =
                    record_event(@, Cardinality(RecordedIds) + 1, Payload).state]
    /\ UNCHANGED <<net, partitioned, now, clockVars, logVars, mapVars,
                   registryVars, transportVars>>

\* gossip[i].initiate_gossip(), the messages handed to the transport.
InitiateGossip(i, ord) ==
    LET res == initiate_gossip(gossip[i], ord)
    IN /\ net = {}
       /\ gossip' = [gossip EXCEPT ![i] = res.g]
       /\ net' = net \cup Sent(i, res.messages)
       /\ UNCHANGED <<partitioned, now, clockVars, logVars, mapVars,
                      registryVars, transportVars>>

\* The transport delivers an envelope: its receiver calls handle_message
\* and hands the reply, if any, to the transport.
Deliver(envelope) ==
    LET i == OwnerOf(envelope.to)
        res == handle_message(gossip[i], envelope.from, envelope.message)
        reply == IF res.reply = None THEN <<>>
                 ELSE <<[address |-> envelope.from, message |-> res.reply]>>
    IN /\ gossip' = [gossip EXCEPT ![i] = res.g]
       /\ net' = (net \ {envelope}) \cup Sent(i, reply)
       /\ UNCHANGED <<partitioned, now, clockVars, logVars, mapVars,
                      registryVars, transportVars>>

\* The partition heals.
Heal ==
    /\ partitioned
    /\ partitioned' = FALSE
    /\ UNCHANGED <<gossip, net, now, clockVars, logVars, mapVars,
                   registryVars, transportVars>>

-----------------------------------------------------------------------------
(* SpecRound: the gossip rounds of one GossipProtocol, instance a, that    *)
(* holds b and c as peers.  What a knows of its peers comes from the       *)
(* heartbeats it handles and from mark_peer_failed; the messages a round   *)
(* returns are kept in op.                                                 *)

Subject == "a"

\* The values of GossipConfig::fanout the subject is built with.
Fanouts == {1, 2}

IdleRound ==
    /\ now = 0
    /\ net = {}
    /\ partitioned = FALSE
    /\ \E fanout \in Fanouts :
          gossip = [i \in Instances |->
                      IF i = Subject
                      THEN [NewGossipProtocol(i, [DefaultConfig EXCEPT
                                                     !.fanout = fanout])
                              EXCEPT !.peers =
                                [p \in Instances \ {i} |->
                                    NewPeerState(p, AddressOf[p])]]
                      ELSE NewGossipProtocol(i, DefaultConfig)]

\* The aggregate clocks peer p reports: the events of the subject it has
\* seen, with or without an event of its own.
HeartbeatClocks(p) ==
    {clock \in UNION {[ids -> 1..MaxTick] : ids \in SUBSET {Subject, p}} :
        p \in DOMAIN clock => clock[p] = 1}

\* gossip[i].get_state_mut().record_event(_, payload)
RoundRecordEvent(i) ==
    /\ Cardinality(RecordedIds) < MaxId
    /\ gossip' = [gossip EXCEPT ![i].state =
                    record_event(@, Cardinality(RecordedIds) + 1, Payload).state]
    /\ op' = [name |-> "record_event", i |-> i]
    /\ UNCHANGED <<sync, net, partitioned, now, clockVars, mapVars,
                   registryVars, transportVars>>

\* gossip[i].handle_message(address of p, Heartbeat from p)
PeerHeartbeat(i, p, clock) ==
    /\ gossip' = [gossip EXCEPT ![i] =
                    handle_message(@, AddressOf[p], Heartbeat(p, clock, 1)).g]
    /\ op' = [name |-> "handle_message", i |-> i]
    /\ UNCHANGED <<sync, net, partitioned, now, clockVars, mapVars,
                   registryVars, transportVars>>

\* gossip[i].mark_peer_failed(p); the u32 counter is capped at the value
\* that clears is_reachable.
RoundMarkPeerFailed(i, p) ==
    /\ p \in DOMAIN gossip[i].peers
    /\ gossip[i].peers[p].failed_attempts < FailureThreshold
    /\ gossip' = [gossip EXCEPT ![i] = mark_peer_failed(@, p)]
    /\ op' = [name |-> "mark_peer_failed", i |-> i]
    /\ UNCHANGED <<sync, net, partitioned, now, clockVars, mapVars,
                   registryVars, transportVars>>

\* gossip[i].initiate_gossip(), the messages returned kept in op.
Round(i, ord) ==
    LET res == initiate_gossip(gossip[i], ord)
    IN /\ gossip' = [gossip EXCEPT ![i] = res.g]
       /\ op' = [name |-> "initiate_gossip", i |-> i,
                 messages |-> res.messages]
       /\ UNCHANGED <<sync, net, partitioned, now, clockVars, mapVars,
                      registryVars, transportVars>>

-----------------------------------------------------------------------------
(* SpecLimit: the messages of one GossipProtocol, instance a, built with a *)
(* small max_events_per_message, that holds b and c as peers, records      *)
(* events, runs rounds and answers Pulls.                                  *)

\* The GossipConfig::max_events_per_message the subject is built with.
EventLimit == 1

IdleLimit ==
    /\ now = 0
    /\ net = {}
    /\ partitioned = FALSE
    /\ gossip = [i \in Instances |->
                   IF i = Subject
                   THEN [NewGossipProtocol(i, [DefaultConfig EXCEPT
                            !.max_events_per_message = EventLimit])
                           EXCEPT !.peers =
                             [p \in Instances \ {i} |->
                                 NewPeerState(p, AddressOf[p])]]
                   ELSE NewGossipProtocol(i, DefaultConfig)]

\* gossip[a].handle_message(address of p, Pull from p), the reply kept in
\* op.
LimitPull(p, since) ==
    LET res == handle_message(gossip[Subject], AddressOf[p], Pull(p, since))
    IN /\ gossip' = [gossip EXCEPT ![Subject] = res.g]
       /\ op' = [name |-> "handle_pull", i |-> Subject, reply |-> res.reply]
       /\ UNCHANGED <<sync, net, partitioned, now, clockVars, mapVars,
                      registryVars, transportVars>>

-----------------------------------------------------------------------------
(* SpecHandle: instances a and b hold each other as peers and record       *)
(* events.  b runs rounds towards a; a pulls from b, merges b's state,     *)
(* counts b's failures and drops b when stale.  The transport delays,      *)
(* reorders and duplicates the envelopes.  A tick of `now` is far longer   *)
(* than a delivery: time passes when nothing is in flight.                 *)

Nodes == {"a", "b"}

IdleHandle ==
    /\ now = 0
    /\ net = {}
    /\ partitioned = FALSE
    /\ gossip = [i \in Instances |->
                   IF i \in Nodes
                   THEN [NewGossipProtocol(i, DefaultConfig) EXCEPT !.peers =
                           [p \in Nodes \ {i} |-> NewPeerState(p, AddressOf[p])]]
                   ELSE NewGossipProtocol(i, DefaultConfig)]

\* gossip[i].get_state_mut().record_event(_, payload)
NodeRecordEvent(i) ==
    /\ Cardinality(RecordedIds) < MaxRecorded
    /\ gossip' = [gossip EXCEPT ![i].state =
                    record_event(@, Cardinality(RecordedIds) + 1, Payload).state]
    /\ UNCHANGED <<net, partitioned, now, clockVars, logVars, mapVars,
                   registryVars, transportVars>>

\* gossip[i].initiate_gossip(), the messages handed to the transport while
\* earlier envelopes may still be in flight.
SendRound(i, ord) ==
    LET res == initiate_gossip(gossip[i], ord)
    IN /\ Cardinality(net) <= MaxBacklog
       /\ gossip' = [gossip EXCEPT ![i] = res.g]
       /\ net' = net \cup Sent(i, res.messages)
       /\ UNCHANGED <<partitioned, now, clockVars, logVars, mapVars,
                      registryVars, transportVars>>

\* gossip[i].request_full_sync(address of p), the Pull handed to the
\* transport.
RequestFullSync(i, p) ==
    /\ Cardinality(net) <= MaxBacklog
    /\ net' = net \cup Sent(i, <<request_full_sync(gossip[i], AddressOf[p])>>)
    /\ UNCHANGED <<gossip, partitioned, now, clockVars, logVars, mapVars,
                   registryVars, transportVars>>

\* The transport delivers an envelope, and may keep a copy of it in flight:
\* the receiver calls handle_message and hands the reply, if any, to the
\* transport.
Handle(envelope) ==
    LET i == OwnerOf(envelope.to)
        res == handle_message(gossip[i], envelope.from, envelope.message)
        reply == IF res.reply = None THEN <<>>
                 ELSE <<[address |-> envelope.from, message |-> res.reply]>>
    IN /\ gossip' = [gossip EXCEPT ![i] = res.g]
       /\ \E again \in BOOLEAN :
             net' = (IF again THEN net ELSE net \ {envelope}) \cup Sent(i, reply)
       /\ UNCHANGED <<partitioned, now, clockVars, logVars, mapVars,
                      registryVars, transportVars>>

\* gossip[i].mark_peer_failed(p); the u32 counter is capped at the value
\* that clears is_reachable.
MarkPeerFailed(i, p) ==
    /\ p \in DOMAIN gossip[i].peers
    /\ gossip[i].peers[p].failed_attempts < FailureThreshold
    /\ gossip' = [gossip EXCEPT ![i] = mark_peer_failed(@, p)]
    /\ UNCHANGED <<net, partitioned, now, clockVars, logVars, mapVars,
                   registryVars, transportVars>>

\* gossip[i].cleanup_stale_peers()
CleanupStalePeers(i) ==
    /\ gossip' = [gossip EXCEPT ![i] = cleanup_stale_peers(@)]
    /\ UNCHANGED <<net, partitioned, now, clockVars, logVars, mapVars,
                   registryVars, transportVars>>

\* gossip[i].get_state_mut().merge(gossip[j].get_state())
StateMerge(i, j, build) ==
    /\ i # j
    /\ gossip' = [gossip EXCEPT ![i].state =
                    sync_merge(@, gossip[j].state, build)]
    /\ UNCHANGED <<net, partitioned, now, clockVars, logVars, mapVars,
                   registryVars, transportVars>>

-----------------------------------------------------------------------------
(* SpecPull: instance a synchronises in full from instance b.  Both record *)
(* events; b also applies the deltas a pushes and merges a's state.  The   *)
(* Pull of request_full_sync is answered at once, and the PullResponse is  *)
(* in flight while both instances go on.                                   *)

\* The event ids of the log of instance i.
HeldIds(i) == Range(IdsOf(gossip[i].state.log.events))

\* gossip[i].get_state_mut().record_event(_, payload)
PullRecordEvent(i) ==
    /\ Cardinality(RecordedIds) < MaxId
    /\ gossip' = [gossip EXCEPT ![i].state =
                    record_event(@, Cardinality(RecordedIds) + 1,
                                 Payload).state]
    /\ UNCHANGED <<net, partitioned, now, clockVars, logVars, mapVars,
                   registryVars, transportVars>>

\* gossip[to].handle_message(address of from, Push of from's delta since
\* the clock `since`)
PullPush(from, to, since) ==
    LET delta == delta_since(gossip[from].state, since)
        res == handle_message(gossip[to], AddressOf[from], Push(from, delta))
    IN /\ ~delta_is_empty(delta)
       /\ gossip' = [gossip EXCEPT ![to] = res.g]
       /\ UNCHANGED <<net, partitioned, now, clockVars, logVars, mapVars,
                      registryVars, transportVars>>

\* gossip[i].request_full_sync(address of r), the Pull handled by r, and its
\* reply handed to the transport; op keeps the ids r's log held.
PullAnswer(i, r) ==
    LET pull == request_full_sync(gossip[i], AddressOf[r])
        res == handle_message(gossip[r], AddressOf[i], pull.message)
    IN /\ net = {}
       /\ gossip' = [gossip EXCEPT ![r] = res.g]
       /\ net' = {Envelope(AddressOf[r], AddressOf[i], res.reply)}
       /\ op' = [name |-> "answered", held |-> HeldIds(r), lacked |-> {}]
       /\ UNCHANGED <<sync, partitioned, now, clockVars, mapVars,
                      registryVars, transportVars>>

\* The requester handles the PullResponse; op keeps the ids it lacked.
PullReceive(envelope) ==
    LET i == OwnerOf(envelope.to)
        res == handle_message(gossip[i], envelope.from, envelope.message)
    IN /\ gossip' = [gossip EXCEPT ![i] = res.g]
       /\ net' = net \ {envelope}
       /\ op' = [name |-> "synced", held |-> op.held,
                 lacked |-> op.held \ HeldIds(i)]
       /\ UNCHANGED <<sync, partitioned, now, clockVars, mapVars,
                      registryVars, transportVars>>

\* Time runs until a peer that was seen at the start can be stale.
MaxNow == PeerTimeout + 1

\* Time passes.
Tick ==
    /\ now < MaxNow
    /\ net = {}
    /\ now' = now + 1
    /\ UNCHANGED <<gossip, net, partitioned, clockVars, logVars, mapVars,
                   registryVars, transportVars>>

-----------------------------------------------------------------------------
(* SpecMetric: instances a and b hold each other as peers, record events   *)
(* and update one metric, run rounds and pull from each other.  A round or *)
(* a pull starts when nothing is in flight; every envelope is delivered.   *)
(* The wall clock that stamps the metric is `now`.                         *)

MetricName == "k"

\* gossip[i].get_state_mut().update_metric(MetricName, value)
UpdateMetric(i, value) ==
    /\ gossip' = [gossip EXCEPT ![i].state =
                    update_metric(@, MetricName, value, now)]
    /\ UNCHANGED <<net, partitioned, now, clockVars, logVars, mapVars,
                   registryVars, transportVars>>

\* gossip[i].request_full_sync(address of p), the Pull handed to the
\* transport.
MetricPull(i, p) ==
    /\ net = {}
    /\ net' = Sent(i, <<request_full_sync(gossip[i], AddressOf[p])>>)
    /\ UNCHANGED <<gossip, partitioned, now, clockVars, logVars, mapVars,
                   registryVars, transportVars>>

-----------------------------------------------------------------------------
(* SpecPeers: the peer table of one GossipProtocol, instance a, under      *)
(* add_peer, remove_peer, mark_peer_failed, cleanup_stale_peers and the    *)
(* handling of messages of every type, from senders it knows, senders it   *)
(* does not know and senders that claim a's own id, as time passes.        *)
(* Heartbeats come from every id; the other messages, and the failures,    *)
(* are those of peer b.                                                    *)
(* `op` holds the last call (for cleanup_stale_peers with the ids of the   *)
(* table before it) and, in `streak`, for every peer of the table          *)
(* the number of mark_peer_failed calls made for it since its PeerState    *)
(* was created or last marked seen.                                        *)

Talker == "b"

IdlePeers ==
    /\ now = 0
    /\ net = {}
    /\ partitioned = FALSE
    /\ gossip = [i \in Instances |-> NewGossipProtocol(i, DefaultConfig)]

\* The addresses messages come from.
PeerAddresses == {AddressOf[p] : p \in Instances \ {Subject}}

\* The lists of at most MaxList elements of S.
Lists(S) == UNION {[1..n -> S] : n \in 0..MaxList}

\* The clock of an instance that has recorded one event.
OneTick(id) == tick(NewClock, id)

\* The messages handed to handle_message: a Push and a PullResponse that
\* carry no event, a Pull for everything and a Pull for what follows a's
\* first event, a Heartbeat, and the MembershipUpdates of short lists
\* (any id joins, ids other than a's leave).
InboundMessages ==
    LET delta(s) == [from_clock |-> NewClock, to_clock |-> OneTick(s),
                     events |-> <<>>, state_updates |-> <<>>]
    IN {Push(Talker, delta(Talker)), PullResponse(Talker, delta(Talker))}
       \cup {Pull(Talker, c) : c \in {NewClock, OneTick(Subject)}}
       \cup {Heartbeat(s, OneTick(s), 1) : s \in Instances}
       \cup {MembershipUpdate(Talker, joined, left) :
                joined \in Lists({PeerInfo(q, AddressOf[q]) : q \in Instances}),
                left \in Lists(Instances \ {Subject})}

\* op.streak after a call that leaves the table `peers`, marks the peers
\* of `seen` seen and counts a failure for the peers of `failed`.
Streak(peers, seen, failed) ==
    [q \in DOMAIN peers |->
        IF q \notin DOMAIN op.streak \/ q \in seen THEN 0
        ELSE IF q \in failed THEN op.streak[q] + 1
        ELSE op.streak[q]]

\* gossip[a].add_peer(p, address)
PeersAddPeer(p, address) ==
    LET g == add_peer(gossip[Subject], p, address)
    IN /\ gossip' = [gossip EXCEPT ![Subject] = g]
       /\ op' = [name |-> "add_peer", peer_id |-> p, address |-> address,
                 streak |-> Streak(g.peers, {}, {})]
       /\ UNCHANGED <<sync, net, partitioned, now, clockVars, mapVars,
                      registryVars, transportVars>>

\* gossip[a].remove_peer(p)
PeersRemovePeer(p) ==
    LET g == remove_peer(gossip[Subject], p)
    IN /\ gossip' = [gossip EXCEPT ![Subject] = g]
       /\ op' = [name |-> "remove_peer", peer_id |-> p,
                 streak |-> Streak(g.peers, {}, {})]
       /\ UNCHANGED <<sync, net, partitioned, now, clockVars, mapVars,
                      registryVars, transportVars>>

\* gossip[a].get_state_mut().record_event(_, payload), once.
PeersRecordEvent ==
    /\ gossip[Subject].state.log.events = <<>>
    /\ gossip' = [gossip EXCEPT ![Subject].state =
                    record_event(@, 1, Payload).state]
    /\ op' = [name |-> "record_event", streak |-> op.streak]
    /\ UNCHANGED <<sync, net, partitioned, now, clockVars, mapVars,
                   registryVars, transportVars>>

\* gossip[a].handle_message(from_address, message)
PeersHandle(from_address, message) ==
    LET res == handle_message(gossip[Subject], from_address, message)
    IN /\ gossip' = [gossip EXCEPT ![Subject] = res.g]
       /\ op' = [name |-> "handle_message", from_address |-> from_address,
                 message |-> message, reply |-> res.reply,
                 streak |-> Streak(res.g.peers, {message.sender_id}, {})]
       /\ UNCHANGED <<sync, net, partitioned, now, clockVars, mapVars,
                      registryVars, transportVars>>

\* gossip[a].mark_peer_failed(p); the u32 counter is capped at MaxFailures.
PeersMarkPeerFailed(p) ==
    LET g == mark_peer_failed(gossip[Subject], p)
    IN /\ p \in DOMAIN op.streak => op.streak[p] < MaxFailures
       /\ gossip' = [gossip EXCEPT ![Subject] = g]
       /\ op' = [name |-> "mark_peer_failed", peer_id |-> p,
                 streak |-> Streak(g.peers, {}, {p})]
       /\ UNCHANGED <<sync, net, partitioned, now, clockVars, mapVars,
                      registryVars, transportVars>>

\* gossip[a].cleanup_stale_peers()
PeersCleanup ==
    LET g == cleanup_stale_peers(gossip[Subject])
    IN /\ gossip' = [gossip EXCEPT ![Subject] = g]
       /\ op' = [name |-> "cleanup_stale_peers",
                 before |-> DOMAIN gossip[Subject].peers,
                 streak |-> Streak(g.peers, {}, {})]
       /\ UNCHANGED <<sync, net, partitioned, now, clockVars, mapVars,
                      registryVars, transportVars>>

\* Time passes.
PeersTick ==
    /\ now < MaxNow
    /\ now' = now + 1
    /\ op' = [name |-> "tick", streak |-> op.streak]
    /\ UNCHANGED <<gossip, sync, net, partitioned, clockVars, mapVars,
                   registryVars, transportVars>>

-----------------------------------------------------------------------------
(* Specifications *)

InitClock ==
    /\ IdleClock /\ IdleLog /\ IdleMap /\ IdleTransport /\ IdleRegistry
    /\ IdleGossip

NextClock ==
    \/ \E i \in ClockSlots, id \in ClockIds : ClockTick(i, id)
    \/ \E i \in ClockSlots, id \in ClockIds, v \in 0..MaxTick : ClockSet(i, id, v)
    \/ \E i, j \in ClockSlots : ClockMerge(i, j)
    \/ \E i, j, k \in ClockSlots : ClockMerged(i, j, k)
    \/ ClockHappenedBefore
    \/ ClockConcurrent

SpecClock == InitClock /\ [][NextClock]_vars

InitLog ==
    /\ IdleClock /\ IdleLog /\ IdleMap /\ IdleTransport /\ IdleRegistry
    /\ IdleGossip

\* Replicas record events and append events to their logs: events taken by
\* value from any replica, and duplicates of the events they hold.
NextLog ==
    \/ \E r \in LogReplicas, id \in EventIds : LogRecordEvent(r, id)
    \/ \E r \in LogReplicas : \E e \in KnownEvents \cup Duplicates(r) : LogAppend(r, e)

SpecLog == InitLog /\ [][NextLog]_vars

\* Replicas record events, append events of other replicas they lack (in
\* any order), and call events_since, apply_delta and merge.
NextMerge ==
    \/ \E r \in LogReplicas, id \in EventIds : LogRecordEvent(r, id)
    \/ \E r \in LogReplicas : \E e \in Unseen(r) : LogAppend(r, e)
    \/ \E r \in LogReplicas : \E since \in KnownClocks : LogEventsSince(r, since)
    \/ \E r, s \in LogReplicas : \E since \in {NewClock, sync[r].log.clock} :
            LogApplyDelta(r, s, since)
    \/ \E r, s \in LogReplicas, build \in SortBuilds : LogMerge(r, s, build)

SpecMerge == InitLog /\ [][NextMerge]_vars

InitMap ==
    /\ IdleClock /\ IdleLog /\ IdleMap /\ IdleTransport /\ IdleRegistry
    /\ IdleGossip

\* Three maps of one key, built by set and merge (merge treats every key
\* on its own).
NextMap ==
    \/ \E i \in MapSlots, value \in MapValues, timestamp \in Stamps,
          writer \in MapWriters : MapSet(i, "k", value, timestamp, writer)
    \/ \E i, j \in MapSlots : MapMerge(i, j)

SpecMap == InitMap /\ [][NextMap]_vars

\* One map of two keys, built by set.
NextSet ==
    \E key \in MapKeys, value \in MapValues, timestamp \in Stamps,
       writer \in MapWriters : MapSet(1, key, value, timestamp, writer)

SpecSet == InitMap /\ [][NextSet]_vars

\* Three maps of one key, built by set, remove and merge.
NextRemove ==
    \/ \E i \in MapSlots, value \in MapValues, timestamp \in Stamps,
          writer \in MapWriters : MapSet(i, "k", value, timestamp, writer)
    \/ \E i \in MapSlots, timestamp \in Stamps : MapRemove(i, "k", timestamp)
    \/ \E i, j \in MapSlots : MapMergeNext(i, j)

SpecRemove == InitMap /\ [][NextRemove]_vars

InitRound ==
    /\ IdleClock /\ IdleLog /\ IdleMap /\ IdleTransport /\ IdleRegistry
    /\ IdleRound

NextRound ==
    \/ RoundRecordEvent(Subject)
    \/ \E p \in Instances \ {Subject} : \E clock \in HeartbeatClocks(p) :
            PeerHeartbeat(Subject, p, clock)
    \/ \E p \in Instances \ {Subject} : RoundMarkPeerFailed(Subject, p)
    \/ \E ord \in IterationOrders(DOMAIN gossip[Subject].peers) :
            Round(Subject, ord)

SpecRound == InitRound /\ [][NextRound]_vars

InitPull ==
    /\ IdleClock /\ IdleLog /\ IdleMap /\ IdleTransport /\ IdleRegistry
    /\ IdleHandle

NextPull ==
    \/ \E i \in Nodes : PullRecordEvent(i)
    \/ \E since \in {NewClock, gossip[Talker].state.log.clock} :
            PullPush(Subject, Talker, since)
    \/ \E build \in SortBuilds : StateMerge(Talker, Subject, build)
    \/ PullAnswer(Subject, Talker)
    \/ \E envelope \in net : PullReceive(envelope)

SpecPull == InitPull /\ [][NextPull]_vars

InitLimit ==
    /\ IdleClock /\ IdleLog /\ IdleMap /\ IdleTransport /\ IdleRegistry
    /\ IdleLimit

NextLimit ==
    \/ RoundRecordEvent(Subject)
    \/ \E p \in Instances \ {Subject} : \E clock \in HeartbeatClocks(p) :
            PeerHeartbeat(Subject, p, clock)
    \/ \E ord \in IterationOrders(DOMAIN gossip[Subject].peers) :
            Round(Subject, ord)
    \/ \E p \in Instances \ {Subject} :
          \E since \in HeartbeatClocks(p) : LimitPull(p, since)

SpecLimit == InitLimit /\ [][NextLimit]_vars

InitHandle ==
    /\ IdleClock /\ IdleLog /\ IdleMap /\ IdleTransport /\ IdleRegistry
    /\ IdleHandle

NextHandle ==
    \/ \E i \in Nodes : NodeRecordEvent(i)
    \/ \E ord \in IterationOrders(DOMAIN gossip["b"].peers) : SendRound("b", ord)
    \/ RequestFullSync("a", "b")
    \/ \E envelope \in net : Handle(envelope)
    \/ MarkPeerFailed("a", "b")
    \/ CleanupStalePeers("a")
    \/ \E build \in SortBuilds : StateMerge("a", "b", build)
    \/ Tick

SpecHandle == InitHandle /\ [][NextHandle]_vars

NextMetric ==
    \/ \E i \in Nodes, value \in MapValues : UpdateMetric(i, value)
    \/ \E i \in Nodes : NodeRecordEvent(i)
    \/ \E i \in Nodes : \E ord \in IterationOrders(DOMAIN gossip[i].peers) :
            InitiateGossip(i, ord)
    \/ \E i \in Nodes : \E p \in Nodes \ {i} : MetricPull(i, p)
    \/ \E envelope \in net : Deliver(envelope)
    \/ Tick

\* Rounds and pulls keep running, and what is in flight is delivered.
FairMetric ==
    /\ \A i \in Nodes :
          SF_vars(\E ord \in IterationOrders(DOMAIN gossip[i].peers) :
                     InitiateGossip(i, ord))
    /\ \A i \in Nodes : \A p \in Nodes \ {i} : SF_vars(MetricPull(i, p))
    /\ WF_vars(\E envelope \in net : Deliver(envelope))

SpecMetric == InitHandle /\ [][NextMetric]_vars /\ FairMetric

-----------------------------------------------------------------------------
(* SpecRegistry: the InstanceManager of the InstanceCoordinator of         *)
(* instance a, under register, register_local, heartbeat, update_status,   *)
(* unregister, cleanup_stale, start and stop, as time passes.              *)

RegRegister(id, address) ==
    LET res == register(manager, id, address)
    IN /\ manager' = res.m
       /\ mgrRet' = [name |-> "register",
                     was |-> IF id \in DOMAIN manager.instances
                             THEN Some(manager.instances[id].status)
                             ELSE NoValue]
       /\ UNCHANGED <<clockVars, logVars, mapVars, gossipVars, transportVars>>

RegRegisterLocal(id) ==
    LET res == register_local(manager, id)
    IN /\ manager' = res.m
       /\ mgrRet' = [name |-> "register_local",
                     was |-> IF id \in DOMAIN manager.instances
                             THEN Some(manager.instances[id].status)
                             ELSE NoValue]
       /\ UNCHANGED <<clockVars, logVars, mapVars, gossipVars, transportVars>>

RegHeartbeat(id) ==
    LET res == heartbeat(manager, id)
    IN /\ manager' = res.m
       /\ mgrRet' = [name |-> "heartbeat"]
       /\ UNCHANGED <<clockVars, logVars, mapVars, gossipVars, transportVars>>

RegUpdateStatus(id, status) ==
    LET res == update_status(manager, id, status)
    IN /\ manager' = res.m
       /\ mgrRet' = [name |-> "update_status",
                     was |-> IF id \in DOMAIN manager.instances
                             THEN Some(manager.instances[id].status)
                             ELSE NoValue]
       /\ UNCHANGED <<clockVars, logVars, mapVars, gossipVars, transportVars>>

RegUnregister(id) ==
    LET res == unregister(manager, id)
    IN /\ manager' = res.m
       /\ mgrRet' = [name |-> "unregister"]
       /\ UNCHANGED <<clockVars, logVars, mapVars, gossipVars, transportVars>>

RegCleanupStale(timeout, ord) ==
    LET res == cleanup_stale(manager, timeout, ord)
    IN /\ manager' = res.m
       /\ mgrRet' = [name |-> "cleanup_stale", timeout |-> timeout,
                     ret |-> res.ret]
       /\ UNCHANGED <<clockVars, logVars, mapVars, gossipVars, transportVars>>

RegStart ==
    /\ manager' = start(manager)
    /\ mgrRet' = [name |-> "start"]
    /\ UNCHANGED <<clockVars, logVars, mapVars, gossipVars, transportVars>>

RegStop ==
    /\ manager' = stop(manager)
    /\ mgrRet' = [name |-> "stop"]
    /\ UNCHANGED <<clockVars, logVars, mapVars, gossipVars, transportVars>>

\* Time passes.
RegTick ==
    /\ now < MaxNow
    /\ now' = now + 1
    /\ mgrRet' = [name |-> "tick"]
    /\ UNCHANGED <<manager, gossip, net, partitioned, clockVars, logVars,
                   mapVars, transportVars>>

\* InstanceCoordinator::new("a").
InitRegistry ==
    /\ IdleClock /\ IdleLog /\ IdleMap /\ IdleTransport /\ IdleGossip
    /\ manager = NewCoordinatorManager(Subject)
    /\ mgrRet = [name |-> "new"]

NextRegistry ==
    \/ \E id \in Instances : RegRegister(id, Some(AddressOf[id]))
    \/ RegRegisterLocal(Subject)
    \/ \E id \in Instances : RegHeartbeat(id)
    \/ \E id \in {Subject, Talker}, status \in InstanceStatus :
            RegUpdateStatus(id, status)
    \/ \E id \in Instances : RegUnregister(id)
    \/ \E timeout \in 0..MaxTimeout :
          \E ord \in IterationOrders(stale_ids(manager, timeout)) :
              RegCleanupStale(timeout, ord)
    \/ RegStart
    \/ RegStop
    \/ RegTick

SpecRegistry == InitRegistry /\ [][NextRegistry]_vars

-----------------------------------------------------------------------------
(* SpecLocal: an InstanceManager of its own, every id of which may become  *)
(* the local one, under register, register_local, unregister,              *)
(* update_status, heartbeat and cleanup_stale, as time passes.             *)

\* The statuses update_status is given here.
LocalStatuses == {"running", "stopped"}

\* InstanceManager::new().
InitLocal ==
    /\ IdleClock /\ IdleLog /\ IdleMap /\ IdleTransport /\ IdleRegistry
    /\ IdleGossip

NextLocal ==
    \/ \E id \in Instances : RegRegister(id, Some(AddressOf[id]))
    \/ \E id \in Instances : RegRegisterLocal(id)
    \/ \E id \in Instances : RegUnregister(id)
    \/ \E id \in Instances, status \in LocalStatuses :
            RegUpdateStatus(id, status)
    \/ \E id \in Instances : RegHeartbeat(id)
    \/ \E timeout \in 0..MaxTimeout :
          \E ord \in IterationOrders(stale_ids(manager, timeout)) :
              RegCleanupStale(timeout, ord)
    \/ RegTick

SpecLocal == InitLocal /\ [][NextLocal]_vars

-----------------------------------------------------------------------------
(* SpecTransport: two InMemoryTransport values, built by new or by         *)
(* create_pair, that connect, disconnect, send and receive.                *)

Handles == {"ta", "tb"}

\* The addresses a transport is asked to reach: the instance ids.
TransportAddresses == {"a", "b"}

\* The messages sent.
TransportMessages == {Heartbeat(i, NewClock, 1) : i \in TransportAddresses}

\* The messages held by all message maps together.
Held(bx) ==
    LET count[S \in SUBSET ((DOMAIN bx) \X TransportAddresses)] ==
          IF S = {} THEN 0
          ELSE LET x == CHOOSE y \in S : TRUE
               IN (IF x[2] \in DOMAIN bx[x[1]] THEN Len(bx[x[1]][x[2]]) ELSE 0)
                  + count[S \ {x}]
    IN count[(DOMAIN bx) \X TransportAddresses]

TransportConnect(h, address) ==
    /\ transports' = [transports EXCEPT ![h] = connect(@, address)]
    /\ tRet' = [name |-> "connect", who |-> h, owed |-> tRet.owed]
    /\ UNCHANGED <<boxes, clockVars, logVars, mapVars, gossipVars,
                   registryVars>>

TransportDisconnect(h, address) ==
    /\ transports' = [transports EXCEPT ![h] = disconnect(@, address)]
    /\ tRet' = [name |-> "disconnect", who |-> h, owed |-> tRet.owed]
    /\ UNCHANGED <<boxes, clockVars, logVars, mapVars, gossipVars,
                   registryVars>>

TransportSend(h, address, message) ==
    /\ Held(boxes) < MaxInbox
    /\ boxes' = send(boxes, transports[h], address, message)
    /\ tRet' = [name |-> "send", who |-> h,
                owed |-> [k \in Handles |->
                            IF k # h /\ transports[k].instance_id = address
                            THEN Append(tRet.owed[k], message)
                            ELSE tRet.owed[k]]]
    /\ UNCHANGED <<transports, clockVars, logVars, mapVars, gossipVars,
                   registryVars>>

TransportReceive(h) ==
    LET res == receive(boxes, transports[h])
    IN /\ boxes' = res.boxes
       /\ tRet' = [name |-> "receive", who |-> h, ret |-> res.ret,
                   owed |-> [tRet.owed EXCEPT ![h] = <<>>]]
       /\ UNCHANGED <<transports, clockVars, logVars, mapVars, gossipVars,
                      registryVars>>

InitTransport ==
    /\ IdleClock /\ IdleLog /\ IdleMap /\ IdleRegistry /\ IdleGossip
    /\ transports \in {NewTransports, create_pair}
    /\ boxes = NewBoxes
    /\ tRet = [name |-> "new", owed |-> [h \in Handles |-> <<>>]]

NextTransport ==
    \/ \E h \in Handles, address \in TransportAddresses :
            TransportConnect(h, address)
    \/ \E h \in Handles, address \in TransportAddresses :
            TransportDisconnect(h, address)
    \/ \E h \in Handles, address \in TransportAddresses :
          \E message \in TransportMessages :
              TransportSend(h, address, message)
    \/ \E h \in Handles : TransportReceive(h)

SpecTransport == InitTransport /\ [][NextTransport]_vars

InitPeers ==
    /\ IdleClock /\ IdleMap /\ IdleTransport /\ IdleRegistry /\ IdlePeers
    /\ sync = [r \in LogReplicas |-> NewSyncState(r)]
    /\ op = [name |-> "new", streak |-> <<>>]

NextPeers ==
    \/ \E p \in Instances : PeersAddPeer(p, AddressOf[p])
    \/ \E p \in Instances : PeersRemovePeer(p)
    \/ PeersRecordEvent
    \/ \E message \in InboundMessages :
          \E from_address \in (IF message.type = "heartbeat" THEN PeerAddresses
                                ELSE {AddressOf[message.sender_id]}) :
              PeersHandle(from_address, message)
    \/ PeersMarkPeerFailed(Talker)
    \/ PeersCleanup
    \/ PeersTick

SpecPeers == InitPeers /\ [][NextPeers]_vars

Init ==
    /\ IdleClock /\ IdleLog /\ IdleMap /\ IdleTransport /\ IdleRegistry
    /\ IdleGossip

Next ==
    \/ \E i \in Instances : RecordEvent(i)
    \/ \E i \in Instances : \E ord \in IterationOrders(DOMAIN gossip[i].peers) :
            InitiateGossip(i, ord)
    \/ \E envelope \in net : Deliver(envelope)
    \/ Heal

Spec == Init /\ [][Next]_vars

-----------------------------------------------------------------------------
(* Properties of VectorClock (SpecClock) *)

\* Two clocks hold the same counters, an absent entry counting as 0.
ClockEq(x, y) == \A id \in DOMAIN x \cup DOMAIN y : get(x, id) = get(y, id)

\* x >= y entry by entry, an absent entry counting as 0.
Dominates(x, y) == \A id \in DOMAIN x \cup DOMAIN y : get(x, id) >= get(y, id)

\* C7: merge is commutative, associative and idempotent, clocks compared
\* entry by entry with an absent entry equal to 0, and each entry of the
\* result is the maximum of the two input entries.
C7_MergeSemilattice ==
    \A i, j, k \in ClockSlots :
        /\ ClockEq(merge(vc[i], vc[j]), merge(vc[j], vc[i]))
        /\ ClockEq(merge(merge(vc[i], vc[j]), vc[k]),
                   merge(vc[i], merge(vc[j], vc[k])))
        /\ ClockEq(merge(vc[i], vc[i]), vc[i])
        /\ \A id \in ClockIds :
              get(merge(vc[i], vc[j]), id) = Max(get(vc[i], id), get(vc[j], id))

\* A merge has run and two of the clocks are concurrent, with different
\* key sets.
C7_Witness ==
    /\ vcRet.op = "merge"
    /\ \E i, j \in ClockSlots :
          /\ concurrent(vc[i], vc[j])
          /\ ~ClockEq(vc[i], vc[j])
          /\ DOMAIN vc[i] # DOMAIN vc[j]

\* Every entry of A is <= the entry of B and one is strictly less.
StrictlyDominated(A, B) ==
    /\ \A id \in ClockIds : get(A, id) <= get(B, id)
    /\ \E id \in ClockIds : get(A, id) < get(B, id)

\* C8: happened_before(A, B) is true exactly when every entry of A is <= the
\* entry of B and one is strictly less, absent entries and entries stored
\* as 0 counting as 0; it is false for A = B and never true both ways.
C8_HappenedBeforeIsStrictDominance ==
    /\ \A i, j \in ClockSlots :
          /\ happened_before(vc[i], vc[j]) <=> StrictlyDominated(vc[i], vc[j])
          /\ ~happened_before(vc[i], vc[i])
          /\ ~(happened_before(vc[i], vc[j]) /\ happened_before(vc[j], vc[i]))
    /\ vcRet.op = "happened_before" =>
          vcRet.ret = StrictlyDominated(vc[1], vc[2])

\* happened_before returned true for a clock that stores b as 0 and lacks a,
\* against a clock that holds a and lacks b.
C8_Witness ==
    /\ vcRet.op = "happened_before"
    /\ vcRet.ret = TRUE
    /\ DOMAIN vc[1] = {"b"} /\ vc[1]["b"] = 0
    /\ DOMAIN vc[2] = {"a"}

-----------------------------------------------------------------------------
(* Properties of ExperienceLog::append (SpecLog) *)

\* C9: appending an event whose id the log has seen returns false and
\* changes nothing: not the sequence, the seen ids or the aggregate clock,
\* whatever clock and payload the duplicate carries.
C9_DuplicateAppendIsNoOp ==
    [][(op'.name = "append" /\ op'.event.id \in sync[op'.r].log.seen_ids)
          => (op'.ret = FALSE /\ sync' = sync)]_vars

\* An append was refused whose event differs in clock and payload from the
\* event the log stores under that id.
C9_Witness ==
    /\ op.name = "append"
    /\ op.ret = FALSE
    /\ \E e \in Range(sync[op.r].log.events) :
          /\ e.id = op.event.id
          /\ e.payload # op.event.payload
          /\ ~ClockEq(e.vector_clock, op.event.vector_clock)
          /\ ~Dominates(sync[op.r].log.clock, op.event.vector_clock)

\* C10: appending an event with a new id returns true, puts the event last
\* and leaves the aggregate clock >= the event's clock and >= the aggregate
\* clock before the call.
C10_NewAppendAdvancesClock ==
    [][(op'.name = "append" /\ op'.event.id \notin sync[op'.r].log.seen_ids)
          => /\ op'.ret = TRUE
             /\ sync'[op'.r].log.events =
                   Append(sync[op'.r].log.events, op'.event)
             /\ Dominates(sync'[op'.r].log.clock, op'.event.vector_clock)
             /\ Dominates(sync'[op'.r].log.clock, sync[op'.r].log.clock)]_vars

\* An append was accepted, after other events, of an event whose clock is
\* concurrent with the clock of an event already in the log.
C10_Witness ==
    /\ op.name = "append"
    /\ op.ret = TRUE
    /\ LET events == sync[op.r].log.events
       IN /\ Len(events) >= 2
          /\ events[Len(events)] = op.event
          /\ concurrent(events[1].vector_clock, op.event.vector_clock)
          /\ ~ClockEq(sync[op.r].log.clock, op.event.vector_clock)

\* C13: record_event on instance i returns an event whose origin is i and
\* whose clock is the aggregate clock before the call with i's entry one
\* higher and every other entry the same; afterwards the log holds one more
\* event, the returned one, and its aggregate clock equals the event's.
C13_RecordEventTicksOwnEntry ==
    [][op'.name = "record_event" =>
          LET i == op'.r
              event == op'.event
              before == sync[i].log
              after == sync'[i].log
          IN /\ event.instance_id = i
             /\ \A id \in DOMAIN before.clock \cup DOMAIN event.vector_clock \cup {i} :
                   get(event.vector_clock, id)
                     = get(before.clock, id) + (IF id = i THEN 1 ELSE 0)
             /\ after.events = Append(before.events, event)
             /\ after.seen_ids = before.seen_ids \cup {event.id}
             /\ ClockEq(after.clock, event.vector_clock)]_vars

\* record_event has run on a replica whose log held an event of the other
\* replica and an event of its own.
C13_Witness ==
    /\ op.name = "record_event"
    /\ LET events == sync[op.r].log.events
       IN /\ Len(events) >= 3
          /\ events[Len(events)] = op.event
          /\ \E k, l \in 1..Len(events) - 1 :
                /\ events[k].instance_id # op.r
                /\ events[l].instance_id = op.r
          /\ get(op.event.vector_clock, op.r) = 2

-----------------------------------------------------------------------------
(* Properties of ExperienceLog::merge and events_since (SpecMerge) *)

\* Every id the two logs share names the same event in both.
SharedIdentical(l1, l2) ==
    \A e1 \in Range(l1.events), e2 \in Range(l2.events) :
        e1.id = e2.id => e1 = e2

\* C2: for two logs built by append and merge, L1.merge(L2) and
\* L2.merge(L1) hold the same sequence of event ids.
C2_MergeOrderIndependent ==
    \A r, s \in LogReplicas, build \in SortBuilds :
        r # s /\ SharedIdentical(sync[r].log, sync[s].log) =>
            IdsOf(log_merge(sync[r].log, sync[s].log, build).events)
              = IdsOf(log_merge(sync[s].log, sync[r].log, build).events)

\* The events of a log whose clock is not causally before or equal to c.
NotBeforeOrEqual(log, c) ==
    SelectSeq(log.events,
              LAMBDA e : ~(happened_before(e.vector_clock, c)
                           \/ ClockEq(e.vector_clock, c)))

\* C3: events_since(c) returns, in log order, exactly the events whose
\* clock is not causally before or equal to c, those concurrent with c
\* included.
C3_EventsSinceNotBeforeOrEqual ==
    op.name = "events_since" =>
        op.ret = NotBeforeOrEqual(sync[op.r].log, op.since)

\* C4: after L1.merge(L2) the ids of L1 are the union of the ids the two
\* logs held, each id occurs once in L1's sequence, and L2 is unchanged.
C4_MergeIsUnion ==
    [][op'.name = "merge" =>
          LET before == sync[op'.r].log
              other == sync[op'.s].log
              after == sync'[op'.r].log
          IN /\ Range(IdsOf(after.events))
                  = Range(IdsOf(before.events)) \cup Range(IdsOf(other.events))
             /\ after.seen_ids = before.seen_ids \cup other.seen_ids
             /\ Cardinality(Range(IdsOf(after.events))) = Len(after.events)
             /\ sync'[op'.s] = sync[op'.s]]_vars

\* A merge has run; the merged log holds three events, the other log holds
\* two of them, one recorded by each replica.
C4_Witness ==
    /\ op.name = "merge"
    /\ Len(sync[op.r].log.events) = 3
    /\ Len(sync[op.s].log.events) = 2
    /\ {e.instance_id : e \in Range(sync[op.s].log.events)} = LogReplicas

\* C12: applying a delta a second time leaves the state as the first
\* application left it, and applying a delta whose events are all in the
\* log already changes nothing.
C12_ApplyDeltaIdempotent ==
    [][op'.name = "apply_delta" =>
          LET r == op'.r
              delta == op'.delta
          IN /\ apply_delta(sync'[r], delta) = sync'[r]
             /\ (\A e \in Range(delta.events) : e.id \in sync[r].log.seen_ids)
                   => sync' = sync]_vars

\* A delta of two events was applied to a log that held them already: the
\* last event of the log is none of the delta's.
C12_Witness ==
    /\ op.name = "apply_delta"
    /\ Len(op.delta.events) >= 2
    /\ LET events == sync[op.r].log.events
       IN /\ Range(op.delta.events) \subseteq Range(events)
          /\ events[Len(events)] \notin Range(op.delta.events)

\* No event of the sequence is preceded by an event that it happened before.
CausallyOrdered(events) ==
    \A k, l \in 1..Len(events) :
        k < l => ~happened_before(events[l].vector_clock, events[k].vector_clock)

\* C5: after a merge, e1 occurs before e2 in the merged sequence whenever
\* e1's clock happened before e2's.
C5_MergeRespectsCausality ==
    op.name = "merge" => CausallyOrdered(sync[op.r].log.events)

-----------------------------------------------------------------------------
(* Properties of LWWMap (SpecMap, SpecSet) *)

\* C14: merge is commutative, associative and idempotent on maps built by
\* set and merge: both orders hold the same entry for every key, both
\* groupings of a three-way merge give the same map, and merge(A, A) = A.
C14_MapMergeSemilattice ==
    \A i, j, k \in MapSlots :
        /\ lww_merge(lww[i], lww[j]) = lww_merge(lww[j], lww[i])
        /\ lww_merge(lww_merge(lww[i], lww[j]), lww[k])
              = lww_merge(lww[i], lww_merge(lww[j], lww[k]))
        /\ lww_merge(lww[i], lww[i]) = lww[i]

\* The map that holds the one entry (key, value, timestamp, writer).
Single(key, value, timestamp, writer) ==
    lww_set(NewMap, key, value, timestamp, writer)

\* C15: merging into a map M a map that holds only the entry (k, v, ts, w)
\* gives the same map as M.set(k, v, ts, w), ties of timestamp included.
C15_MergeAppliesSetRule ==
    \A i \in MapSlots, key \in MapKeys, value \in MapValues,
       timestamp \in Stamps, writer \in MapWriters :
        lww_merge(lww[i], Single(key, value, timestamp, writer))
          = lww_set(lww[i], key, value, timestamp, writer)

\* A merge has run between two maps whose entries for the key tie on the
\* timestamp and differ in writer; the merged map holds the greater writer's.
C15_Witness ==
    /\ lwwOp.name = "merge"
    /\ lwwOp.i # lwwOp.j
    /\ "k" \in DOMAIN lww[lwwOp.i] /\ "k" \in DOMAIN lww[lwwOp.j]
    /\ lww[lwwOp.i]["k"] = LWWEntry(2, 1, "b")
    /\ \E h \in MapSlots :
          "k" \in DOMAIN lww[h] /\ lww[h]["k"] = LWWEntry(1, 1, "a")

\* set is given an entry that the entry stored for the key beats: a
\* greater timestamp, or the same timestamp and a writer id >= the new one.
Rejected(map, key, timestamp, writer) ==
    /\ key \in DOMAIN map
    /\ \/ map[key].timestamp > timestamp
       \/ /\ map[key].timestamp = timestamp
          /\ WriterRank[map[key].writer] >= WriterRank[writer]

\* C16: set(k, v, ts, w) leaves the map unchanged when the stored entry
\* for k has a greater timestamp, or the same timestamp and a writer id
\* >= w; otherwise the entry for k becomes (v, ts, w).  The entries of the
\* other keys are never changed.
C16_SetRule ==
    [][lwwOp'.name = "set" =>
          LET before == lww[lwwOp'.i]
              after == lww'[lwwOp'.i]
              key == lwwOp'.key
          IN /\ IF Rejected(before, key, lwwOp'.timestamp, lwwOp'.writer)
                THEN after = before
                ELSE /\ key \in DOMAIN after
                     /\ after[key] = LWWEntry(lwwOp'.value, lwwOp'.timestamp,
                                              lwwOp'.writer)
             /\ DOMAIN after = DOMAIN before \cup {key}
             /\ \A other \in DOMAIN before \ {key} : after[other] = before[other]
             /\ \A h \in MapSlots \ {lwwOp'.i} : lww'[h] = lww[h]]_vars

\* A set was refused on a tie of timestamp with the same writer and another
\* value, in a map that holds an entry for the other key too.
C16_Witness ==
    /\ lwwOp.name = "set"
    /\ DOMAIN lww[lwwOp.i] = MapKeys
    /\ lww[lwwOp.i][lwwOp.key].timestamp = lwwOp.timestamp
    /\ lww[lwwOp.i][lwwOp.key].writer = lwwOp.writer
    /\ lww[lwwOp.i][lwwOp.key].value # lwwOp.value

-----------------------------------------------------------------------------
(* Properties of initiate_gossip (SpecRound) *)

\* The Push messages among the messages a round returned.
Pushes(messages) == SelectSeq(messages, LAMBDA m : m.message.type = "push")

\* The step is an initiate_gossip call of the subject.
RoundStep ==
    \E ord \in IterationOrders(DOMAIN gossip[Subject].peers) :
        Round(Subject, ord)

\* C17: a round returns no Push for a peer whose last known clock is
\* greater than or equal, entry by entry, to the local aggregate clock.
C17_NoPushToPeerThatDominates ==
    [][RoundStep =>
          LET g == gossip[op'.i]
          IN \A p \in DOMAIN g.peers :
                Dominates(g.peers[p].last_clock, g.state.log.clock) =>
                    \A m \in Range(Pushes(op'.messages)) :
                        m.address # g.peers[p].address]_vars

\* A round has run with events in the log: one reachable peer's clock
\* equals the local clock and gets no Push, the other peer gets one.
C17_Witness ==
    /\ op.name = "initiate_gossip"
    /\ LET g == gossip[op.i]
       IN /\ Len(g.state.log.events) >= 2
          /\ \E p, q \in DOMAIN g.peers :
                /\ g.peers[p].is_reachable
                /\ Dominates(g.peers[p].last_clock, g.state.log.clock)
                /\ \A m \in Range(Pushes(op.messages)) :
                      m.address # g.peers[p].address
                /\ \E m \in Range(Pushes(op.messages)) :
                      m.address = g.peers[q].address

\* C18: one initiate_gossip call returns at most `fanout` Push messages,
\* each addressed to a different peer that is reachable at that moment.
C18_PushesBoundedByFanout ==
    [][RoundStep =>
          LET g == gossip[op'.i]
              pushes == Pushes(op'.messages)
          IN /\ Len(pushes) <= g.config.fanout
             /\ \A k, l \in 1..Len(pushes) :
                   k # l => pushes[k].address # pushes[l].address
             /\ \A k \in 1..Len(pushes) :
                   \E p \in DOMAIN g.peers :
                      /\ g.peers[p].address = pushes[k].address
                      /\ g.peers[p].is_reachable]_vars

\* A round with fanout 1 has run while two reachable peers both lacked
\* events of the log: it returned one Push.
C18_Witness ==
    /\ op.name = "initiate_gossip"
    /\ LET g == gossip[op.i]
       IN /\ g.config.fanout = 1
          /\ Cardinality(DOMAIN g.peers) = 2
          /\ \A p \in DOMAIN g.peers :
                /\ g.peers[p].is_reachable
                /\ ~delta_is_empty(delta_since(g.state, g.peers[p].last_clock))
          /\ Len(Pushes(op.messages)) = 1

\* C34: initiate_gossip changes only the last-gossip instant: the log, the
\* aggregate clock, the LWW maps and every peer record stay as they are;
\* and two rounds in a row, with nothing recorded and nothing received in
\* between, return the same Push delta for every peer both push to.
C34_RoundChangesOnlyLastGossip ==
    [][op'.name = "initiate_gossip" =>
          /\ gossip' = [gossip EXCEPT ![op'.i].last_gossip = now]
          /\ gossip'[op'.i].state = gossip[op'.i].state
          /\ gossip'[op'.i].peers = gossip[op'.i].peers
          /\ op.name = "initiate_gossip" =>
                \A k \in 1..Len(Pushes(op.messages)) :
                \A l \in 1..Len(Pushes(op'.messages)) :
                   LET first == Pushes(op.messages)[k]
                       second == Pushes(op'.messages)[l]
                   IN first.address = second.address
                         => second.message.delta = first.message.delta]_vars

\* A round has returned a Push for a reachable peer with a failure on its
\* record, and the record still lacks what the Push carried: the next round
\* owes that peer the same delta.
C34_Witness ==
    /\ op.name = "initiate_gossip"
    /\ LET g == gossip[op.i]
       IN \E p \in DOMAIN g.peers :
             /\ g.peers[p].failed_attempts > 0
             /\ g.peers[p].is_reachable
             /\ \E m \in Range(Pushes(op.messages)) :
                   /\ m.address = g.peers[p].address
                   /\ m.message.delta.events # <<>>
                   /\ m.message.delta =
                         delta_since(g.state, g.peers[p].last_clock)

-----------------------------------------------------------------------------
(* Properties of message handling (SpecHandle) *)

\* The events of the log of a GossipProtocol.
LogOf(g) == Range(g.state.log.events)

\* C11: logs are grow-only.  Whatever step is taken (record_event,
\* initiate_gossip, request_full_sync, handle_message and the apply_delta
\* it calls, mark_peer_failed, cleanup_stale_peers, SyncState::merge), every
\* event held by a log before the step is held after it with the same id,
\* origin, payload and clock, and no id leaves seen_ids.
C11_LogsGrowOnly ==
    [][\A i \in Instances :
          /\ LogOf(gossip[i]) \subseteq LogOf(gossip'[i])
          /\ gossip[i].state.log.seen_ids \subseteq gossip'[i].state.log.seen_ids]_vars

\* a holds an event it recorded itself next to one it received from b, and
\* has counted a failure of b since: the log has been through record_event,
\* handle_message (or merge) and mark_peer_failed.
C11_Witness ==
    /\ \E e \in LogOf(gossip["a"]) : e.instance_id = "a"
    /\ \E e \in LogOf(gossip["a"]) : e.instance_id = "b"
    /\ "b" \in DOMAIN gossip["a"].peers
    /\ gossip["a"].peers["b"].failed_attempts > 0

\* The step delivers `envelope`, whose message is of one of `types` and
\* whose sender has a PeerState at the receiver.
HandlesFromKnown(envelope, types) ==
    /\ envelope.message.type \in types
    /\ envelope.message.sender_id \in DOMAIN gossip[OwnerOf(envelope.to)].peers
    /\ Handle(envelope)

\* No event id occurs twice in the log.
NoDuplicates(log) ==
    \A k, l \in 1..Len(log.events) :
        log.events[k].id = log.events[l].id => k = l

\* C19: handling a Push or PullResponse carrying delta d from a sender that
\* has a PeerState leaves that PeerState with failed_attempts 0,
\* is_reachable true and last_clock equal to d.to_clock, leaves every event
\* of d in the local log, no id twice, and hands no reply to the transport.
C19_PushFromKnownSender ==
    [][\A envelope \in net :
          HandlesFromKnown(envelope, {"push", "pull_response"}) =>
              LET i == OwnerOf(envelope.to)
                  d == envelope.message.delta
                  peer == gossip'[i].peers[envelope.message.sender_id]
              IN /\ peer.failed_attempts = 0
                 /\ peer.is_reachable
                 /\ peer.last_clock = d.to_clock
                 /\ Range(d.events) \subseteq LogOf(gossip'[i])
                 /\ NoDuplicates(gossip'[i].state.log)
                 /\ net' \subseteq net]_vars

\* a has handled a PullResponse of b while holding b as a peer: time has
\* passed (so nothing sent earlier is in flight), b has run no round since,
\* a has seen b since, and the copy of a PullResponse left in flight
\* carries events and the clock that a stores for b.
C19_Witness ==
    /\ now > 0
    /\ gossip["b"].last_gossip < now
    /\ "b" \in DOMAIN gossip["a"].peers
    /\ gossip["a"].peers["b"].last_seen = now
    /\ gossip["a"].peers["b"].failed_attempts = 0
    /\ \E envelope \in net :
          /\ envelope.to = AddressOf["a"]
          /\ envelope.message.type = "pull_response"
          /\ envelope.message.delta.events # <<>>
          /\ gossip["a"].peers["b"].last_clock = envelope.message.delta.to_clock
          /\ Range(envelope.message.delta.events) \subseteq LogOf(gossip["a"])

\* C20: what an instance records of a peer only advances.  Handling a Push,
\* a PullResponse or a Heartbeat of a sender that has a PeerState, however
\* late or often the transport delivers it, leaves a last_clock that is not
\* causally before the last_clock held before.
C20_LastClockNeverRegresses ==
    [][\A envelope \in net :
          HandlesFromKnown(envelope, {"push", "pull_response", "heartbeat"}) =>
              LET i == OwnerOf(envelope.to)
                  p == envelope.message.sender_id
              IN ~happened_before(gossip'[i].peers[p].last_clock,
                                  gossip[i].peers[p].last_clock)]_vars

-----------------------------------------------------------------------------
(* Properties of the peer table (SpecPeers) *)

\* The step is a handle_message call for a message of the given type.
Handled(type) == op'.name = "handle_message" /\ op'.message.type = type

\* The protocol h differs from g at most in the PeerState of the peers of
\* `ids`.
SameExceptPeers(g, h, ids) ==
    /\ [h EXCEPT !.peers = g.peers] = g
    /\ DOMAIN h.peers \ ids = DOMAIN g.peers \ ids
    /\ \A q \in DOMAIN g.peers \ ids : h.peers[q] = g.peers[q]

\* C21: handling Pull{sender, since_clock} returns a PullResponse whose
\* sender_id is the local id and whose delta holds since_clock, the
\* aggregate clock and events_since(since_clock); nothing changes but the
\* sender's PeerState, when there is one, which is marked seen and keeps its
\* address and last_clock: the SyncState, the set of peers and every other
\* PeerState are as before.
C21_PullOnlyMarksSeen ==
    [][Handled("pull") =>
          LET g == gossip[Subject]
              h == gossip'[Subject]
              s == op'.message.sender_id
              since == op'.message.since_clock
          IN /\ op'.reply.type = "pull_response"
             /\ op'.reply.sender_id = g.instance_id
             /\ op'.reply.delta.from_clock = since
             /\ op'.reply.delta.to_clock = g.state.log.clock
             /\ op'.reply.delta.events = events_since(g.state.log, since)
             /\ SameExceptPeers(g, h, {s})
             /\ DOMAIN h.peers = DOMAIN g.peers
             /\ s \in DOMAIN g.peers =>
                   h.peers[s] = [g.peers[s] EXCEPT !.last_seen = now,
                                                   !.failed_attempts = 0,
                                                   !.is_reachable = TRUE]]_vars

\* a, holding an event, has answered the Pull of a peer it holds a clock
\* for, asking for what follows that event, while it holds another peer.
C21_Witness ==
    /\ op.name = "handle_message"
    /\ op.message.type = "pull"
    /\ op.message.since_clock = gossip[Subject].state.log.clock
    /\ gossip[Subject].state.log.events # <<>>
    /\ op.message.sender_id \in DOMAIN gossip[Subject].peers
    /\ gossip[Subject].peers[op.message.sender_id].last_clock # NewClock
    /\ DOMAIN gossip[Subject].peers # {op.message.sender_id}

\* C22: handling a Heartbeat whose sender id has no PeerState and is not
\* the local id creates the PeerState of that id, with the from_address of
\* the call as its address, reachable and with no failure, and leaves the
\* SyncState (the log) and every other PeerState as they are.
C22_HeartbeatRegistersUnknownSender ==
    [][LET g == gossip[Subject]
           h == gossip'[Subject]
           s == op'.message.sender_id
       IN (/\ Handled("heartbeat")
           /\ s \notin DOMAIN g.peers
           /\ s # g.instance_id) =>
              /\ s \in DOMAIN h.peers
              /\ h.peers[s].peer_id = s
              /\ h.peers[s].address = op'.from_address
              /\ h.peers[s].is_reachable
              /\ h.peers[s].failed_attempts = 0
              /\ h.state = g.state
              /\ SameExceptPeers(g, h, {s})]_vars

\* a has handled the Heartbeat of a sender it did not know (the PeerState
\* holds no clock yet), which came from an address other than the one the
\* sender is known by, while holding another peer.
C22_Witness ==
    /\ op.name = "handle_message"
    /\ op.message.type = "heartbeat"
    /\ op.from_address # AddressOf[op.message.sender_id]
    /\ op.message.sender_id \in DOMAIN gossip[Subject].peers
    /\ gossip[Subject].peers[op.message.sender_id].last_clock = NewClock
    /\ gossip[Subject].peers[op.message.sender_id].address = op.from_address
    /\ DOMAIN gossip[Subject].peers # {op.message.sender_id}

\* The ids of a joined list.
JoinedIds(joined) == {joined[k].peer_id : k \in 1..Len(joined)}

\* The step handles MembershipUpdate{joined, left} and afterwards: every id
\* of `left` is absent; every id of `joined` that is neither in `left` nor
\* the local id is present and, if its PeerState existed, keeps its
\* address, its last_clock and, unless it is one of `reset`, its
\* failed_attempts; no other PeerState is added or removed.
MembershipOutcome(g, h, joined, left, reset) ==
    /\ \A q \in Range(left) : q \notin DOMAIN h.peers
    /\ \A q \in JoinedIds(joined) \ (Range(left) \cup {g.instance_id}) :
          /\ q \in DOMAIN h.peers
          /\ q \in DOMAIN g.peers =>
                /\ h.peers[q].address = g.peers[q].address
                /\ h.peers[q].last_clock = g.peers[q].last_clock
                /\ q \notin reset =>
                      h.peers[q].failed_attempts = g.peers[q].failed_attempts
    /\ \A q \in Instances \ (JoinedIds(joined) \cup Range(left)) :
          q \in DOMAIN h.peers <=> q \in DOMAIN g.peers

\* C23 as claimed: after handling MembershipUpdate{joined, left} every id
\* of left is absent from the table, every id of joined that is neither in
\* left nor the local id is present, a PeerState that already existed
\* keeping its address, last_clock and failed_attempts, and no other
\* PeerState is added or removed.
C23_MembershipKeepsFailureCount ==
    [][Handled("membership_update") =>
          MembershipOutcome(gossip[Subject], gossip'[Subject],
                            op'.message.joined, op'.message.left, {})]_vars

\* C23 as amended: the same, except that the PeerState of the sender, like
\* that of the sender of any message, is marked seen: when the sender is
\* among the joined its failed_attempts is 0 afterwards.
C23_MembershipMarksSenderSeen ==
    [][Handled("membership_update") =>
          LET g == gossip[Subject]
              h == gossip'[Subject]
              s == op'.message.sender_id
          IN /\ MembershipOutcome(g, h, op'.message.joined,
                                  op'.message.left, {s})
             /\ s \in DOMAIN g.peers /\ s \in DOMAIN h.peers =>
                   h.peers[s].failed_attempts = 0]_vars

\* a has handled a MembershipUpdate whose joined list names its sender,
\* which a already held under an address other than the one the list
\* gives, and whose left list names a peer: the sender is in the table
\* under its old address, the peer that left is not.
C23_Witness ==
    /\ op.name = "handle_message"
    /\ op.message.type = "membership_update"
    /\ op.message.left # <<>>
    /\ op.message.sender_id \in JoinedIds(op.message.joined)
    /\ op.message.sender_id \notin Range(op.message.left)
    /\ op.message.sender_id \in DOMAIN gossip[Subject].peers
    /\ gossip[Subject].peers[op.message.sender_id].address
          # AddressOf[op.message.sender_id]
    /\ gossip[Subject].peers[op.message.sender_id].last_clock # NewClock

\* C24: after any sequence of calls, a PeerState is unreachable exactly
\* when the mark_peer_failed calls made for it since it was created or
\* last marked seen number at least 3, and failed_attempts is that number;
\* handling a message of a peer of the table marks it seen: reachable, no
\* failure, whatever the count before.
C24_UnreachableAfterThreeFailuresInARow ==
    [][LET g == gossip[Subject]
           h == gossip'[Subject]
           s == op'.message.sender_id
       IN /\ \A q \in DOMAIN h.peers :
                /\ h.peers[q].is_reachable <=> op'.streak[q] < FailureThreshold
                /\ h.peers[q].failed_attempts = op'.streak[q]
          /\ (/\ op'.name = "handle_message"
              /\ s \in DOMAIN g.peers
              /\ s \in DOMAIN h.peers) =>
                 h.peers[s].is_reachable /\ h.peers[s].failed_attempts = 0]_vars

\* b, seen by a after time has passed, has failed three times since and is
\* unreachable.
C24_Witness ==
    /\ op.name = "mark_peer_failed"
    /\ Talker \in DOMAIN gossip[Subject].peers
    /\ gossip[Subject].peers[Talker].last_seen > 0
    /\ gossip[Subject].peers[Talker].last_clock # NewClock
    /\ op.streak[Talker] = FailureThreshold
    /\ ~gossip[Subject].peers[Talker].is_reachable

\* C25: a failure never evicts a peer.  mark_peer_failed leaves the table
\* with the same peers and changes at most failed_attempts and is_reachable
\* of the peer it names; a PeerState leaves the table only by remove_peer
\* of its id, by a MembershipUpdate whose left list names it, or by
\* cleanup_stale_peers when its last_seen is older than peer_timeout_ms.
C25_FailureNeverEvicts ==
    [][LET g == gossip[Subject]
           h == gossip'[Subject]
       IN /\ op'.name = "mark_peer_failed" =>
                /\ DOMAIN h.peers = DOMAIN g.peers
                /\ SameExceptPeers(g, h, {op'.peer_id})
                /\ op'.peer_id \in DOMAIN g.peers =>
                      [h.peers[op'.peer_id] EXCEPT
                          !.failed_attempts = 0, !.is_reachable = TRUE]
                      = [g.peers[op'.peer_id] EXCEPT
                          !.failed_attempts = 0, !.is_reachable = TRUE]
          /\ \A q \in DOMAIN g.peers \ DOMAIN h.peers :
                \/ op'.name = "remove_peer" /\ op'.peer_id = q
                \/ Handled("membership_update") /\ q \in Range(op'.message.left)
                \/ /\ op'.name = "cleanup_stale_peers"
                   /\ now - g.peers[q].last_seen > g.config.peer_timeout_ms]_vars

\* b has just failed for the third time in a row, is unreachable and was
\* last seen longer ago than the timeout, and is in the table.
C25_Witness ==
    /\ op.name = "mark_peer_failed"
    /\ op.peer_id \in DOMAIN gossip[Subject].peers
    /\ gossip[Subject].peers[op.peer_id].failed_attempts >= FailureThreshold
    /\ ~gossip[Subject].peers[op.peer_id].is_reachable
    /\ is_stale(gossip[Subject].peers[op.peer_id],
                gossip[Subject].config.peer_timeout_ms)

\* C26: cleanup_stale_peers removes exactly the PeerStates whose last_seen
\* is more than peer_timeout_ms ago, reachable or not, and leaves every
\* other PeerState and the rest of the protocol, the SyncState included, as
\* they are.
C26_CleanupRemovesExactlyTheStale ==
    [][op'.name = "cleanup_stale_peers" =>
          LET g == gossip[Subject]
              h == gossip'[Subject]
              stale == {q \in DOMAIN g.peers :
                          now - g.peers[q].last_seen > g.config.peer_timeout_ms}
          IN /\ DOMAIN h.peers = DOMAIN g.peers \ stale
             /\ \A q \in DOMAIN h.peers : h.peers[q] = g.peers[q]
             /\ [h EXCEPT !.peers = g.peers] = g]_vars

\* cleanup_stale_peers has removed a peer and kept another, which is
\* unreachable and was last seen exactly peer_timeout_ms ago.
C26_Witness ==
    /\ op.name = "cleanup_stale_peers"
    /\ op.before \ DOMAIN gossip[Subject].peers # {}
    /\ \E q \in DOMAIN gossip[Subject].peers :
          /\ now - gossip[Subject].peers[q].last_seen
                = gossip[Subject].config.peer_timeout_ms
          /\ ~gossip[Subject].peers[q].is_reachable

\* C27: the peer table never holds a PeerState for the local instance,
\* whatever add_peer, remove_peer, cleanup_stale_peers and handle_message
\* calls were made, a Heartbeat whose sender_id is the local id and a
\* MembershipUpdate whose joined list names the local id included.
C27_NoPeerStateForLocalId ==
    \A i \in Instances : i \notin DOMAIN gossip[i].peers

\* a, holding peers, has handled a MembershipUpdate whose joined list names
\* a's own id.
C27_Witness ==
    /\ op.name = "handle_message"
    /\ op.message.type = "membership_update"
    /\ Subject \in JoinedIds(op.message.joined)
    /\ DOMAIN gossip[Subject].peers # {}

-----------------------------------------------------------------------------
(* Properties of the metrics under gossip (SpecMetric) *)

\* The entries update_metric can write at instance i.
MetricEntries(i) ==
    {LWWEntry(value, timestamp, i) : value \in MapValues, timestamp \in 0..MaxNow}

\* The metrics map holds, for the key, the entry or one that wins over it
\* under the rule of LWWMap::merge.
Visible(metrics, key, entry) ==
    /\ key \in DOMAIN metrics
    /\ \/ metrics[key] = entry
       \/ metrics[key].timestamp > entry.timestamp
       \/ /\ metrics[key].timestamp = entry.timestamp
          /\ WriterRank[metrics[key].writer] > WriterRank[entry.writer]

\* C28: a value written with update_metric on one instance eventually
\* becomes visible on the other (its get returns the entry, or one that
\* wins over it), as long as rounds and pulls keep running and every
\* message is delivered.
C28_MetricEventuallyVisibleEverywhere ==
    \A i \in Nodes : \A j \in Nodes \ {i} : \A entry \in MetricEntries(i) :
        (/\ MetricName \in DOMAIN gossip[i].state.metrics
         /\ gossip[i].state.metrics[MetricName] = entry)
            ~> Visible(gossip[j].state.metrics, MetricName, entry)

-----------------------------------------------------------------------------
(* Properties of the gossip system (Spec) *)

\* All logs hold the same event ids and equal aggregate clocks.
Converged ==
    \A i, j \in Instances :
        /\ gossip[i].state.log.seen_ids = gossip[j].state.log.seen_ids
        /\ Range(IdsOf(gossip[i].state.log.events))
             = Range(IdsOf(gossip[j].state.log.events))
        /\ ClockEq(gossip[i].state.log.clock, gossip[j].state.log.clock)

\* The partition has healed, nothing is in flight, and a further round of
\* any instance emits only messages that leave their receiver as it is and
\* draw no reply: as long as no event is recorded, no round changes any
\* instance any more.
Quiescent ==
    /\ ~partitioned
    /\ net = {}
    /\ \A i \in Instances :
          \A ord \in IterationOrders(DOMAIN gossip[i].peers) :
              LET res == initiate_gossip(gossip[i], ord)
              IN /\ res.g = gossip[i]
                 /\ \A m \in Range(res.messages) :
                       LET j == OwnerOf(m.address)
                           got == handle_message(gossip[j], AddressOf[i],
                                                 m.message)
                       IN got.g = gossip[j] /\ got.reply = None

\* C1: once the partition has healed and no further event is recorded,
\* gossip rounds whose messages are all delivered leave the three logs
\* with the same event ids and equal aggregate clocks.  As a final result:
\* when the rounds change nothing any more, the logs have converged.
C1_QuiescentImpliesConverged == Quiescent => Converged

\* C6: if a log's aggregate clock holds n for instance j, the log holds
\* each of the first n events recorded by j (the k-th event that j records
\* carries k in j's entry of its clock).
C6_LogHoldsWhatClockClaims ==
    \A i, j \in Instances :
        \A k \in 1..get(gossip[i].state.log.clock, j) :
            \E e \in Range(gossip[i].state.log.events) :
                e.instance_id = j /\ get(e.vector_clock, j) = k

-----------------------------------------------------------------------------
(* Properties of the instance registry (SpecRegistry)                      *)

Registered(m) == DOMAIN m.instances

\* The status of id changes in this step, or id appears in it.
StatusWritten(id) ==
    /\ id \in Registered(manager')
    /\ \/ id \notin Registered(manager)
       \/ manager'.instances[id].status # manager.instances[id].status

\* C29 as stated: the status of an instance id changes only along Starting,
\* Running, Syncing, Paused, Stopping, then Stopped or Failed, and never
\* leaves Stopped or Failed.
C29_StatusFollowsTheChain ==
    [][\A id \in Instances :
          (id \in Registered(manager) /\ StatusWritten(id))
              => <<manager.instances[id].status,
                   manager'.instances[id].status>> \in StatusChain]_vars

\* C29 amended: the status of a registered id is one of the seven statuses
\* and is written only by register and register_local of that id (to
\* Starting), by update_status of that id (to the status given, whatever
\* the status before), by start (the local id, to Running) and by stop (the
\* local id, to Stopped); and every update_status of a registered id takes
\* effect, on or off the chain.
C29_StatusChangesOnlyAsDriven ==
    [][/\ \A id \in Instances :
            StatusWritten(id) =>
               LET after == manager'.instances[id].status
               IN \/ /\ mgrRet'.name = "register"
                     /\ \E address \in {NoValue, Some(AddressOf[id])} :
                            RegRegister(id, address)
                     /\ after = "starting"
                  \/ /\ mgrRet'.name = "register_local"
                     /\ RegRegisterLocal(id)
                     /\ after = "starting"
                  \/ /\ mgrRet'.name = "update_status"
                     /\ id \in Registered(manager)
                     /\ RegUpdateStatus(id, after)
                  \/ /\ mgrRet'.name = "start"
                     /\ RegStart
                     /\ manager.local_instance_id = Some(id)
                     /\ after = "running"
                  \/ /\ mgrRet'.name = "stop"
                     /\ RegStop
                     /\ manager.local_instance_id = Some(id)
                     /\ after = "stopped"
       /\ mgrRet'.name = "update_status" =>
            \A id \in Registered(manager), status \in InstanceStatus :
               RegUpdateStatus(id, status) =>
                  /\ manager'.instances[id].status = status
                  /\ manager'.instances[id].health.status = status
       /\ \A id \in Registered(manager') :
            manager'.instances[id].status \in InstanceStatus]_vars

\* An update_status has taken an instance out of Stopped, back to Starting.
C29_Witness ==
    /\ mgrRet.name = "update_status"
    /\ mgrRet.was = Some("stopped")
    /\ \A id \in Registered(manager) :
          manager.instances[id].status = "starting"

\* The registered ids other than the local one last seen more than timeout
\* ago.
LongUnseen(m, timeout) ==
    {id \in Registered(m) :
        /\ m.local_instance_id # Some(id)
        /\ now - m.instances[id].last_seen > timeout}

\* C30: cleanup_stale(timeout) removes exactly the registered instances,
\* other than the local one, last seen more than timeout ago, and returns
\* exactly the ids it removed, each once; the local instance stays however
\* stale it is; and last_seen is written only by register, register_local
\* and heartbeat, to the present time.
C30_CleanupStaleRemovesExactlyTheStale ==
    [][/\ mgrRet'.name = "cleanup_stale" =>
            LET removed == Registered(manager) \ Registered(manager')
            IN /\ removed = LongUnseen(manager, mgrRet'.timeout)
               /\ Range(mgrRet'.ret) = removed
               /\ Len(mgrRet'.ret) = Cardinality(removed)
               /\ Registered(manager') \subseteq Registered(manager)
               /\ \A id \in Registered(manager') :
                     manager'.instances[id] = manager.instances[id]
               /\ manager'.local_instance_id = manager.local_instance_id
               /\ \A id \in Registered(manager) :
                     manager.local_instance_id = Some(id)
                         => id \in Registered(manager')
       /\ \A id \in Registered(manager) \cap Registered(manager') :
            manager'.instances[id].last_seen # manager.instances[id].last_seen
               => /\ mgrRet'.name \in
                        {"register", "register_local", "heartbeat"}
                  /\ manager'.instances[id].last_seen = now]_vars

\* A cleanup_stale has just removed an instance and returned its id, while
\* the local instance, as long unseen, and a fresher instance stay.
C30_Witness ==
    /\ mgrRet.name = "cleanup_stale"
    /\ mgrRet.ret # <<>>
    /\ Range(mgrRet.ret) \cap Registered(manager) = {}
    /\ \E id \in Registered(manager) :
          /\ manager.local_instance_id = Some(id)
          /\ now - manager.instances[id].last_seen > mgrRet.timeout
    /\ \E id \in Registered(manager) :
          /\ manager.local_instance_id # Some(id)
          /\ now - manager.instances[id].last_seen <= mgrRet.timeout

\* The instance just registered under id is there with status Starting, and
\* an update_status of it to any status returns true and takes effect.
FreshlyRegistered(m, id) ==
    /\ id \in Registered(m)
    /\ m.instances[id].status = "starting"
    /\ \A status \in InstanceStatus :
          LET res == update_status(m, id, status)
          IN /\ res.ret = TRUE
             /\ res.m.instances[id].status = status

\* C31: immediately after register or register_local returns id, also when
\* id was already registered with another status, the instance id exists
\* with status Starting, and a following update_status(id, s) returns true
\* and leaves its status equal to s.
C31_RegistrationYieldsStarting ==
    [][/\ mgrRet'.name = "register" =>
            \A id \in Instances :
            \A address \in {NoValue, Some(AddressOf[id])} :
               RegRegister(id, address) =>
                  /\ register(manager, id, address).ret = id
                  /\ FreshlyRegistered(manager', id)
       /\ mgrRet'.name = "register_local" =>
            \A id \in Instances :
               RegRegisterLocal(id) =>
                  /\ register_local(manager, id).ret = id
                  /\ FreshlyRegistered(manager', id)]_vars

\* A register has just replaced an instance that was Stopped: every
\* registered instance is Starting again.
C31_Witness ==
    /\ mgrRet.name = "register"
    /\ mgrRet.was = Some("stopped")
    /\ \A id \in Registered(manager) :
          manager.instances[id].status = "starting"

-----------------------------------------------------------------------------
(* Properties of the local-instance pointer (SpecLocal)                    *)

\* C38: whenever local_instance_id is Some(id), an instance with that id is
\* registered and is not among remote_instances, which holds every other
\* registered instance.
C38_LocalPointerValid ==
    \A id \in Instances :
        manager.local_instance_id = Some(id) =>
           /\ id \in Registered(manager)
           /\ manager.instances[id] \notin remote_instances(manager)
           /\ remote_instances(manager) =
                 {manager.instances[j] : j \in Registered(manager) \ {id}}

\* A cleanup_stale has just removed an instance while the local instance,
\* one other than a and as long unseen, stays, next to a remote instance.
C38_Witness ==
    /\ mgrRet.name = "cleanup_stale"
    /\ mgrRet.ret # <<>>
    /\ \E id \in Instances \ {Subject} :
          /\ manager.local_instance_id = Some(id)
          /\ id \in Registered(manager)
          /\ now - manager.instances[id].last_seen > mgrRet.timeout
    /\ remote_instances(manager) # {}

-----------------------------------------------------------------------------
(* Properties of the in-memory transport (SpecTransport)                   *)

\* The two transports were built each by InMemoryTransport::new.
BuiltByNew == transports["ta"].messages # transports["tb"].messages

\* The messages of the pairs a receive returned.
MessagesOf(ret) == {ret[k][2] : k \in 1..Len(ret)}

\* C32: for two transports built by InMemoryTransport::new("a") and
\* ::new("b"), a message one of them sent to the other's instance id is
\* returned by the next receive of the other, one message received for
\* each message sent.
C32_SentIsReceivedByNext ==
    [][(BuiltByNew /\ tRet'.name = "receive") =>
          /\ Range(tRet.owed[tRet'.who]) \subseteq MessagesOf(tRet'.ret)
          /\ Len(tRet.owed[tRet'.who]) <= Len(tRet'.ret)]_vars

-----------------------------------------------------------------------------
(* Properties of the size of a message (SpecLimit)                         *)

\* The message, if a Push or a PullResponse, carries at most limit events.
WithinLimit(message, limit) ==
    message.type \in {"push", "pull_response"}
        => Len(message.delta.events) <= limit

\* C33: every message emitted by initiate_gossip or returned by
\* handle_message (Push, PullResponse) carries at most
\* max_events_per_message events in its delta.
C33_MessagesWithinEventLimit ==
    LET limit == gossip[Subject].config.max_events_per_message
    IN /\ op.name = "initiate_gossip" =>
            \A k \in 1..Len(op.messages) :
               WithinLimit(op.messages[k].message, limit)
       /\ op.name = "handle_pull" => WithinLimit(op.reply, limit)

-----------------------------------------------------------------------------
(* Properties of the full synchronisation (SpecPull)                       *)

\* C35: when instance b has handled the Pull of request_full_sync and the
\* requester handles the resulting PullResponse, the requester's log
\* afterwards holds every event id b's log held when it answered.
C35_FullSyncBringsEveryEvent ==
    [][(op.name = "answered" /\ op'.name = "synced") =>
          op.held \subseteq Range(IdsOf(gossip'[Subject].state.log.events))]_vars

\* A full synchronisation has ended in which b answered with two events
\* or more, one of them recorded by a, and the requester lacked some.
C35_Witness ==
    /\ op.name = "synced"
    /\ Cardinality(op.held) >= 2
    /\ op.lacked # {}
    /\ op.held \subseteq HeldIds(Subject)
    /\ \E e \in Range(gossip[Talker].state.log.events) :
          e.id \in op.held /\ e.instance_id = Subject

-----------------------------------------------------------------------------
(* Properties of the clock entries under gossip (Spec)                     *)

\* The messages in flight.
InFlight == {envelope.message : envelope \in net}

\* Every event in a log or in a message in flight.
EventsAnywhere ==
    UNION {Range(gossip[j].state.log.events) : j \in Instances}
    \cup UNION {Range(m.delta.events) :
                  m \in {x \in InFlight : x.type \in {"push", "pull_response"}}}

\* Every aggregate clock: of a log, of a peer record, of a message in flight.
ClocksAnywhere ==
    {gossip[j].state.log.clock : j \in Instances}
    \cup UNION {{gossip[j].peers[p].last_clock : p \in DOMAIN gossip[j].peers} :
                  j \in Instances}
    \cup {m.clock : m \in {x \in InFlight : x.type = "heartbeat"}}
    \cup {m.since_clock : m \in {x \in InFlight : x.type = "pull"}}
    \cup UNION {{m.delta.from_clock, m.delta.to_clock} :
                  m \in {x \in InFlight : x.type \in {"push", "pull_response"}}}

\* The events instance i has recorded so far: its log never loses one.
RecordedBy(i) ==
    {e \in Range(gossip[i].state.log.events) : e.instance_id = i}

\* C36: no aggregate clock and no event clock anywhere holds a value for
\* instance i greater than the number of events i has recorded so far, and
\* two distinct events recorded by i never carry the same value in i's
\* entry.
C36_OnlyOwnerAdvancesItsEntry ==
    \A i \in Instances :
        LET recorded == Cardinality({e.id : e \in RecordedBy(i)})
        IN /\ \A clock \in ClocksAnywhere : get(clock, i) <= recorded
           /\ \A e \in EventsAnywhere : get(e.vector_clock, i) <= recorded
           /\ \A e, f \in EventsAnywhere :
                 (e.instance_id = i /\ f.instance_id = i /\ e.id # f.id)
                     => get(e.vector_clock, i) # get(f.vector_clock, i)

\* An instance has recorded two events, another instance holds both and has
\* recorded one of its own after them, and a third knows of the first two by
\* a clock only.
C36_Witness ==
    \E i, j, k \in Instances :
        /\ i # j /\ j # k /\ i # k
        /\ Cardinality(RecordedBy(i)) = 2
        /\ RecordedBy(i) \subseteq Range(gossip[j].state.log.events)
        /\ \E e \in RecordedBy(j) : get(e.vector_clock, i) = 2
        /\ get(gossip[j].state.log.clock, i) = 2
        /\ \E clock \in ClocksAnywhere : get(clock, i) = 2 /\ get(clock, j) = 1

-----------------------------------------------------------------------------
(* Properties of LWWMap::remove (SpecRemove)                               *)

\* C37: remove(key, t) deletes the entry outright whatever t is, keeping no
\* tombstone: after it get(key) is None and the other keys are as before;
\* and a merge into a map that lacks key, from a map that holds an entry for
\* key, makes key present with that entry, also right after a remove with a
\* timestamp newer than the entry's.
C37_RemoveKeepsNoTombstone ==
    [][/\ lwwOp'.name = "remove" =>
            LET before == lww[lwwOp'.i]
                after == lww'[lwwOp'.i]
            IN /\ lww_get(after, lwwOp'.key) = <<>>
               /\ DOMAIN after = DOMAIN before \ {lwwOp'.key}
               /\ \A k \in DOMAIN after : after[k] = before[k]
       /\ lwwOp'.name = "merge" =>
            \A key \in DOMAIN lww[lwwOp'.j] \ DOMAIN lww[lwwOp'.i] :
               /\ key \in DOMAIN lww'[lwwOp'.i]
               /\ lww'[lwwOp'.i][key] = lww[lwwOp'.j][key]]_vars

\* A merge right after a remove has brought the key back into the same map
\* with an entry older than the timestamp of the remove.
C37_Witness ==
    /\ lwwOp.name = "merge"
    /\ lwwOp.before.name = "remove"
    /\ lwwOp.before.i = lwwOp.i
    /\ "k" \in DOMAIN lww[lwwOp.i]
    /\ lww[lwwOp.i]["k"].timestamp < lwwOp.before.timestamp
    /\ lww[lwwOp.i]["k"] = lww[lwwOp.j]["k"]

=============================================================================
